---- MODULE Spec2Model ----
(***************************************************************************)
(* The concurrency-safe storage layer of the extension:                    *)
(*   WriteQueueService and ConcurrencyService  (core/concurrency-service)  *)
(*   ChromeStorageService / MockStorageService (core/storage-service)      *)
(*                                                                         *)
(* JavaScript runs every callback to its next await without interruption,  *)
(* so one action of the model is one such synchronous stretch of code.     *)
(***************************************************************************)
EXTENDS Integers, Sequences, FiniteSets, TLC

\* ------------------------------------------------------------- bounds
NCalls == 3          \* number of enqueue() calls in one run of the queue
NRetryCalls == 2     \* number of executor calls in one run
NStoreCalls == 2     \* number of facade calls in one run
MaxTime == 2         \* the clock runs from 1 to MaxTime
MaxFaults == 3       \* number of storage callbacks that report lastError in one run
MaxRetriesArg == 2   \* largest maxRetries argument a caller passes

Calls == 1..NCalls
NoCall == 0

\* results of abstract operations and failure messages of abstract attempts
Vals == {"v1", "v2"}
AttemptVals == {"v1"}
Msgs == {"", "m1"}

VARIABLES
    queue,       \* WriteQueueService.queue: the entries not yet started
    processing,  \* WriteQueueService.processing
    awaiting,    \* the entry whose wrapper processQueue is awaiting, or NoCall
    flushPc,     \* position of the flush() call
    kind,        \* what each call is
    pc,          \* position of each call
    maxRetries,  \* executeWithRetry: the maxRetries argument of each call
    attempt,     \* executeWithRetry: the loop variable attempt
    lastError,   \* executeWithRetry: the message of lastError
    opResult,    \* how the operation handed to enqueue() ended
    promise,     \* the promise enqueue() returned for each call
    ret,         \* what the caller of the facade received
    invoked,     \* history: how often the caller's operation was invoked
    settles,     \* history: how often the enqueue() promise was settled
    enqSeq,      \* history: calls in the order enqueue() was called
    startSeq,    \* history: calls in the order their entry was started
    behind,      \* history: the entries queued when a call's operation rejected
    overlapped,  \* history: the calls enqueued while the worker was processing
    attemptResult, \* history: how the latest attempt of each call ended
    failures,    \* history: how many attempts of each call have failed
    attemptSeq,  \* history: the queued calls, in the order their attempts started
    store,       \* chrome.storage.local: the value under each key
    mock,        \* MockStorageService.map and .contextMap
    now,         \* Date.now()
    mode,        \* which facade the run uses, and how
    payload,     \* the argument of each facade call
    local,       \* the local variables id and map of each facade call
    idCounter,   \* how many ids makeId() has produced
    meter,       \* the metrics of both layers and the startTime of each call
    timer,       \* the backoff configuration, and the delays each call has waited
    inner        \* the entry an operation submitted from inside the queue and awaits

qvars == <<queue, processing, awaiting>>
cvars == <<kind, pc, maxRetries, attempt, lastError, opResult, promise, ret>>
hvars == <<invoked, settles, enqSeq, startSeq, behind, overlapped>>
rvars == <<attemptResult, failures, attemptSeq>>
\* what starting an entry's operation may change, besides pc and the queue
beginvars == <<startSeq, invoked, attempt, opResult, ret, attemptSeq, local, idCounter>>
\* the backing store, the clock and the arguments of the facade calls
svars == <<store, mock, now, mode, payload>>
vars == <<queue, processing, awaiting, flushPc, kind, pc, maxRetries, attempt,
          lastError, opResult, promise, ret, invoked, settles, enqSeq,
          startSeq, behind, overlapped, attemptResult, failures, attemptSeq,
          store, mock, now, mode, payload, local, idCounter, meter, timer, inner>>

\* ------------------------------------------------------------- values
\* A settled value: ok for fulfilled, n > 0 marks the error executeWithRetry
\* builds ("Operation failed after n attempts: msg").
Fulfilled(v) == [ok |-> TRUE, n |-> 0, msg |-> v]
Rejected(m) == [ok |-> FALSE, n |-> 0, msg |-> m]
Pending == [ok |-> FALSE, n |-> -1, msg |-> "pending"]

EmbeddedMessage(m) == IF m = "" THEN "Unknown error" ELSE m

RetryError(n, m) == [ok |-> FALSE, n |-> n, msg |-> EmbeddedMessage(m)]

Range(s) == {s[i] : i \in 1..Len(s)}

IndexOf(s, x) == CHOOSE i \in 1..Len(s) : s[i] = x

\* ------------------------------------------------------------- storage values
\* STORAGE_KEY and CONTEXTS_STORAGE_KEY
Keys == {"prompts", "contexts"}

\* a value of chrome.storage.local: no key, a map by id, a legacy array
Absent == [shape |-> "absent", map |-> <<>>, arr |-> <<>>]
MapVal(m) == [shape |-> "map", map |-> m, arr |-> <<>>]
ArrVal(a) == [shape |-> "array", map |-> <<>>, arr |-> a]

\* the other values the key can hold: null, and a string, number or boolean
NullVal == [shape |-> "null", map |-> <<>>, arr |-> <<>>]
OtherVal == [shape |-> "other", map |-> <<>>, arr |-> <<>>]

\* a record; name stands for the content fields (name, template or text,
\* description); createdAt = 0 stands for a missing createdAt
Rec(id, name, createdAt, updatedAt) ==
    [id |-> id, name |-> name, createdAt |-> createdAt, updatedAt |-> updatedAt]

NoPayload == [key |-> "prompts", id |-> 0, createdAt |-> 0, name |-> 0]
NoLocal ==
    [id |-> 0, map |-> <<>>, toWrite |-> <<>>, phase |-> "first", mig |-> FALSE, list |-> <<>>]

\* Calls are numbered in the order the clients make them.
NextToCall(c) == pc[c] = "idle" /\ \A d \in 1..(c - 1) : pc[d] # "idle"

\* ------------------------------------------------------------- metrics
\* a latency average, as the fraction <<p, q>> in lowest terms
RECURSIVE GCD(_, _)
GCD(a, b) == IF b = 0 THEN a ELSE GCD(b, a % b)

Reduce(p, q) == IF p = 0 THEN <<0, 1>> ELSE <<p \div GCD(p, q), q \div GCD(p, q)>>

Whole(k) == <<k, 1>>
Scaled(r, k) == Reduce(r[1] * k, r[2])
Plus(r, s) == Reduce(r[1] * s[2] + s[1] * r[2], r[2] * s[2])
Over(r, k) == Reduce(r[1], r[2] * k)

Max(a, b) == IF a >= b THEN a ELSE b

\* the initial value of a layer's metrics
ZeroMetrics ==
    [totalOperations |-> 0, successfulOperations |-> 0, failedOperations |-> 0,
     averageLatency |-> Whole(0), queueDepth |-> 0, lastOperationTime |-> 0]

NoMeter ==
    [exec |-> ZeroMetrics, queue |-> ZeroMetrics,
     enq |-> [c \in Calls |-> 0], beg |-> [c \in Calls |-> 0]]

\* the runs that follow the metrics: nothing but getMetrics() reads them, so
\* the runs in which it is not called leave them out
Metered == mode = "metered"

recordOperation_FailedUncounted(m, success, latency, t) ==
    [m EXCEPT !.totalOperations = @ + 1,
              !.successfulOperations = IF success THEN @ + 1 ELSE @,
              !.lastOperationTime = t]

\* recordOperation(success, latency), Date.now() giving t
recordOperation(m, success, latency, t) ==
    LET n == m.totalOperations + 1
    IN  [m EXCEPT !.totalOperations = n,
                  !.successfulOperations = IF success THEN @ + 1 ELSE @,
                  !.failedOperations = IF success THEN @ ELSE @ + 1,
                  !.averageLatency =
                      IF n = 1 THEN Whole(latency)
                      ELSE Over(Plus(Scaled(@, n - 1), Whole(latency)), n),
                  !.lastOperationTime = t]

calculateCombinedAverageLatency_Unweighted(metrics1, metrics2) ==
    IF metrics1.totalOperations + metrics2.totalOperations = 0 THEN Whole(0)
    ELSE Over(Plus(metrics1.averageLatency, metrics2.averageLatency), 2)

\* ConcurrencyService.calculateCombinedAverageLatency
calculateCombinedAverageLatency(metrics1, metrics2) ==
    LET totalOps == metrics1.totalOperations + metrics2.totalOperations
        totalLatency == Plus(Scaled(metrics1.averageLatency, metrics1.totalOperations),
                             Scaled(metrics2.averageLatency, metrics2.totalOperations))
    IN  IF totalOps = 0 THEN Whole(0) ELSE Over(totalLatency, totalOps)

\* ConcurrencyService.getMetrics(), the queue being a WriteQueueService
getMetrics ==
    LET queueMetrics == meter.queue
    IN  [totalOperations |-> meter.exec.totalOperations + queueMetrics.totalOperations,
         successfulOperations |->
             meter.exec.successfulOperations + queueMetrics.successfulOperations,
         failedOperations |-> meter.exec.failedOperations + queueMetrics.failedOperations,
         averageLatency |-> calculateCombinedAverageLatency(meter.exec, queueMetrics),
         queueDepth |-> queueMetrics.queueDepth,
         lastOperationTime |->
             Max(meter.exec.lastOperationTime, queueMetrics.lastOperationTime)]

\* the positions of a call whose operation has ended
EndedPcs == {"opdone", "settled", "returned"}

\* what a step records: the call is made, its executeWithRetry is entered,
\* executeWithRetry ends, the wrapper of enqueue() settles the promise,
\* executeAtomic continues after its await
IsCalled(c) == pc[c] = "idle" /\ pc'[c] # "idle"
IsBegun(c) ==
    IF kind'[c] = "retry" THEN IsCalled(c)
    ELSE c \notin Range(startSeq) /\ c \in Range(startSeq')
RetryDone_EveryAttempt(c) ==
    /\ kind'[c] \in {"retry", "atomicRetry", "saveAtomic", "deleteAtomic"}
    /\ pc[c] = "running" /\ pc'[c] # "running"

\* executeWithRetry records once, when it returns or throws
RetryDone(c) ==
    /\ kind'[c] \in {"retry", "atomicRetry", "saveAtomic", "deleteAtomic"}
    /\ pc[c] \notin EndedPcs /\ pc'[c] \in EndedPcs
WrapperDone(c) == settles'[c] > settles[c]
AtomicDone(c) ==
    /\ kind'[c] \in {"atomicRetry", "saveAtomic", "deleteAtomic"}
    /\ pc[c] # "returned" /\ pc'[c] = "returned"

\* no code will read the startTime of call c again: the call has returned,
\* or it is a plain entry whose wrapper has settled
StartTimeDead(c) ==
    \/ pc'[c] = "returned"
    \/ kind'[c] = "retry" /\ pc'[c] \in EndedPcs

\* the executor's metrics after calls 1..c of the step are recorded;
\* enq and beg are the start times as the step leaves them
RECURSIVE ExecAfter(_, _, _)
ExecAfter(c, enq, beg) ==
    IF c = 0 THEN meter.exec
    ELSE LET m0 == ExecAfter(c - 1, enq, beg)
             m1 == IF RetryDone(c)
                   THEN recordOperation(m0,
                            IF kind'[c] = "retry" THEN ret'[c].ok ELSE opResult'[c].ok,
                            now' - beg[c], now')
                   ELSE m0
         IN  IF AtomicDone(c)
             THEN recordOperation(m1, ret'[c].ok, now' - enq[c], now')
             ELSE m1

RECURSIVE QueueAfter(_, _)
QueueAfter(c, enq) ==
    IF c = 0 THEN [meter.queue EXCEPT !.queueDepth = Len(queue')]
    ELSE LET m0 == QueueAfter(c - 1, enq)
         IN  IF WrapperDone(c)
             THEN recordOperation(m0, promise'[c].ok, now' - enq[c], now')
             ELSE m0

\* the metrics and start times after a step of the two layers
MeterStep ==
    meter' = IF ~Metered THEN meter
             ELSE LET enq == [c \in Calls |-> IF IsCalled(c) THEN now' ELSE meter.enq[c]]
                      beg == [c \in Calls |-> IF IsBegun(c) THEN now' ELSE meter.beg[c]]
                  IN  [exec |-> ExecAfter(NCalls, enq, beg),
                       queue |-> QueueAfter(NCalls, enq),
                       enq |-> [c \in Calls |-> IF StartTimeDead(c) THEN 0 ELSE enq[c]],
                       beg |-> [c \in Calls |-> IF pc'[c] \in EndedPcs THEN 0 ELSE beg[c]]]

\* ConcurrencyService.resetMetrics(), which calls WriteQueueService.resetMetrics()
ResetMetrics ==
    /\ Metered
    /\ meter' = [meter EXCEPT !.exec = ZeroMetrics,
                              !.queue = [ZeroMetrics EXCEPT !.queueDepth = Len(queue)]]
    /\ UNCHANGED <<qvars, flushPc, cvars, hvars, rvars, svars, local, idCounter, timer, inner>>

\* time passes; the runs explored let it pass while a call is under way
Tick ==
    /\ Metered
    /\ now < MaxTime
    /\ \E c \in Calls : pc[c] \notin {"idle", "returned"}
    /\ now' = now + 1
    /\ UNCHANGED <<qvars, flushPc, cvars, hvars, rvars, store, mock, mode, payload,
                   local, idCounter, meter, timer, inner>>

\* ------------------------------------------------------------- WriteQueueService
ShouldReturnEarly_NoFlag(proc, q) == q = <<>>

\* processQueue: if (this.processing || this.queue.length === 0) return
ShouldReturnEarly(proc, q) == proc \/ q = <<>>

LoopContinuesAfter_NoCatch(opOk) == opOk

\* processQueue: the inner try/catch swallows the rethrown error, so the
\* while loop goes on after a fulfilled and after a rejected operation alike
LoopContinuesAfter(opOk) == TRUE

\* the facade methods whose operation works on the backing store
StoreKinds == {"saveAtomic", "deleteAtomic", "save", "delete"}

\* the non-atomic methods, which carry their own loop of three attempts
DirectKinds == {"save", "delete"}

\* the calls whose operation is a queue entry
QueuedKinds == {"op", "atomicRetry", "saveAtomic", "deleteAtomic"}

\* the calls that run in executeWithRetry
ExecutorKinds == {"retry", "atomicRetry", "saveAtomic", "deleteAtomic"}

\* 2^n, Math.pow(2, n)
RECURSIVE Pow2(_)
Pow2(n) == IF n <= 0 THEN 1 ELSE 2 * Pow2(n - 1)

Min(a, b) == IF a <= b THEN a ELSE b

calculateBackoffDelay_Uncapped(attempt_, baseDelay, maxDelay) ==
    baseDelay * Pow2(attempt_ - 1)

\* calculateBackoffDelay(attempt, baseDelay, maxDelay)
calculateBackoffDelay(attempt_, baseDelay, maxDelay) ==
    Min(baseDelay * Pow2(attempt_ - 1), maxDelay)

\* the backoff part of DEFAULT_CONCURRENCY_CONFIG
DEFAULT_CONCURRENCY_CONFIG == [baseDelayMs |-> 10, maxDelayMs |-> 1000]

\* a service constructed with configuration cfg: no call has waited yet
NoTimer(cfg) == [config |-> cfg, waits |-> [c \in Calls |-> <<>>]]

\* executeWithRetry: a failed attempt that is not the last one computes its
\* delay and awaits a timer of that length; nothing else sets a timer
TimerStep ==
    timer' = [timer EXCEPT !.waits =
                 [c \in Calls |->
                     IF kind[c] \in ExecutorKinds /\ pc[c] # "backoff" /\ pc'[c] = "backoff"
                     THEN Append(@[c], calculateBackoffDelay(attempt[c],
                                           timer.config.baseDelayMs, timer.config.maxDelayMs))
                     ELSE @[c]]]

\* makeId(): an id no caller supplies and no earlier makeId() returned
makeId(n) == 100 + n

\* savePromptAtomic: const id = prompt.id || makeId(), evaluated by every
\* attempt; savePrompt evaluates it once, before its loop
AttemptId(h) ==
    IF kind'[h] \in DirectKinds THEN local[h].id
    ELSE IF payload'[h].id # 0 THEN payload'[h].id ELSE makeId(idCounter)

\* one attempt up to its first await: `await operation()`; the operation of
\* a facade method starts with readPromptsMap(), which issues a get
BeginAttempt(h, pcBase) ==
    /\ invoked' = [invoked EXCEPT ![h] = @ + 1]
    /\ attemptSeq' = IF kind'[h] \in QueuedKinds THEN Append(attemptSeq, h) ELSE attemptSeq
    /\ IF kind'[h] \in StoreKinds
       THEN /\ pc' = [pcBase EXCEPT ![h] = "read"]
            /\ local' = [local EXCEPT ![h] =
                            [NoLocal EXCEPT !.id = AttemptId(h)]]
            /\ idCounter' = IF kind'[h] = "saveAtomic" /\ payload'[h].id = 0
                             THEN idCounter + 1 ELSE idCounter
       ELSE /\ pc' = [pcBase EXCEPT ![h] = "running"]
            /\ UNCHANGED <<local, idCounter>>

EntersLoop_Always(max) == TRUE

\* executeWithRetry: `attempt <= maxRetries` with attempt = 1
EntersLoop(max) == 1 <= max

\* executeWithRetry up to its first await: the loop is entered when
\* 1 <= maxRetries, else the call fails without an attempt
BeginRetry(h, pcBase) ==
    IF EntersLoop(maxRetries'[h])
    THEN /\ attempt' = [attempt EXCEPT ![h] = 1]
         /\ BeginAttempt(h, pcBase)
         /\ UNCHANGED <<opResult, ret>>
    ELSE /\ attempt' = [attempt EXCEPT ![h] = 1]
         /\ UNCHANGED <<invoked, attemptSeq, local, idCounter>>
         /\ IF kind'[h] = "retry"
            THEN /\ pc' = [pcBase EXCEPT ![h] = "returned"]
                 /\ ret' = [ret EXCEPT ![h] = RetryError(maxRetries'[h], lastError[h])]
                 /\ UNCHANGED opResult
            ELSE /\ pc' = [pcBase EXCEPT ![h] = "opdone"]
                 /\ opResult' = [opResult EXCEPT ![h] = RetryError(maxRetries'[h], lastError[h])]
                 /\ UNCHANGED ret

\* the wrapper of enqueue() calling the operation it was given (kind' and
\* maxRetries' are what the call was made with)
BeginOp(h, pcBase) ==
    /\ startSeq' = Append(startSeq, h)
    /\ IF kind'[h] = "op"
       THEN /\ pc' = [pcBase EXCEPT ![h] = "running"]
            /\ invoked' = [invoked EXCEPT ![h] = @ + 1]
            /\ UNCHANGED <<attempt, opResult, ret, attemptSeq, local, idCounter>>
       ELSE BeginRetry(h, pcBase)

\* processQueue: shift the head and call its wrapper
TakeHead_Pop(q, pcBase) ==
    /\ queue' = SubSeq(q, 1, Len(q) - 1)
    /\ awaiting' = q[Len(q)]
    /\ BeginOp(q[Len(q)], pcBase)

TakeHead(q, pcBase) ==
    /\ queue' = Tail(q)
    /\ awaiting' = Head(q)
    /\ BeginOp(Head(q), pcBase)

\* processQueue up to its first await
ProcessQueue(q, pcBase) ==
    IF ShouldReturnEarly(processing, q)
    THEN /\ queue' = q
         /\ pc' = pcBase
         /\ UNCHANGED <<processing, awaiting, beginvars>>
    ELSE /\ processing' = TRUE
         /\ TakeHead(q, pcBase)

\* enqueue: push the entry, then processQueue()
EnqueueEntry(c) ==
    /\ enqSeq' = Append(enqSeq, c)
    /\ overlapped' = IF processing THEN overlapped \cup {c} ELSE overlapped
    /\ promise' = [promise EXCEPT ![c] = Pending]
    /\ ProcessQueue(Append(queue, c), [pc EXCEPT ![c] = "queued"])

\* a client calls enqueue(operation) on the queue itself
Enqueue(c) ==
    /\ NextToCall(c)
    /\ kind' = [kind EXCEPT ![c] = "op"]
    /\ UNCHANGED <<flushPc, maxRetries, lastError, settles, behind, attemptResult, failures, svars>>
    /\ EnqueueEntry(c)
    /\ MeterStep
    /\ TimerStep
    /\ UNCHANGED inner

\* the operation of a plain entry settles, fulfilled with v
OpResolves(c, v) ==
    /\ kind[c] = "op"
    /\ pc[c] = "running"
    /\ pc' = [pc EXCEPT ![c] = "opdone"]
    /\ opResult' = [opResult EXCEPT ![c] = Fulfilled(v)]
    /\ UNCHANGED <<qvars, flushPc, kind, maxRetries, attempt, lastError, promise, ret, hvars, rvars,
                   svars, local, idCounter>>
    /\ MeterStep
    /\ TimerStep
    /\ UNCHANGED inner

\* the operation of a plain entry settles, rejected with message m
OpRejects(c, m) ==
    /\ kind[c] = "op"
    /\ pc[c] = "running"
    /\ pc' = [pc EXCEPT ![c] = "opdone"]
    /\ opResult' = [opResult EXCEPT ![c] = Rejected(m)]
    /\ behind' = [behind EXCEPT ![c] = Range(queue)]
    /\ UNCHANGED overlapped
    /\ UNCHANGED <<qvars, flushPc, kind, maxRetries, attempt, lastError, promise, ret,
                   invoked, settles, enqSeq, startSeq, rvars, svars, local, idCounter>>
    /\ MeterStep
    /\ TimerStep
    /\ UNCHANGED inner

\* the running operation of entry c calls enqueue() (executeAtomic) for a
\* new entry d on the same queue and awaits the promise it gets
OpSubmits(c, d) ==
    /\ kind[c] = "op"
    /\ pc[c] = "running"
    /\ NextToCall(d)
    /\ kind' = [kind EXCEPT ![d] = "op"]
    /\ inner' = [inner EXCEPT ![c] = d]
    /\ enqSeq' = Append(enqSeq, d)
    /\ overlapped' = IF processing THEN overlapped \cup {d} ELSE overlapped
    /\ promise' = [promise EXCEPT ![d] = Pending]
    /\ ProcessQueue(Append(queue, d), [pc EXCEPT ![d] = "queued", ![c] = "nested"])
    /\ UNCHANGED <<flushPc, maxRetries, lastError, settles, behind, attemptResult, failures, svars>>
    /\ MeterStep
    /\ TimerStep

\* the operation of entry c continues after `await` of the promise of the
\* entry it submitted, and settles the way that promise did
InnerSettles(c) ==
    /\ pc[c] = "nested"
    /\ promise[inner[c]] # Pending
    /\ pc' = [pc EXCEPT ![c] = "opdone"]
    /\ opResult' = [opResult EXCEPT ![c] = promise[inner[c]]]
    /\ inner' = [inner EXCEPT ![c] = NoCall]
    /\ UNCHANGED <<qvars, flushPc, kind, maxRetries, attempt, lastError, promise, ret, hvars, rvars,
                   svars, local, idCounter>>
    /\ MeterStep
    /\ TimerStep

SettleWith_AlwaysResolve(r) == [r EXCEPT !.ok = TRUE]

\* the wrapper of enqueue(): resolve(result) or reject(error)
SettleWith(r) == r

\* the wrapper continues after `await operation()`
WrapperSettles(c) ==
    /\ pc[c] = "opdone"
    /\ promise' = [promise EXCEPT ![c] = SettleWith(opResult[c])]
    /\ settles' = [settles EXCEPT ![c] = @ + 1]
    /\ IF kind[c] \in {"op"} \cup StoreKinds
       THEN /\ pc' = [pc EXCEPT ![c] = "returned"]
            /\ ret' = [ret EXCEPT ![c] = SettleWith(opResult[c])]
       ELSE /\ pc' = [pc EXCEPT ![c] = "settled"]
            /\ UNCHANGED ret
    /\ UNCHANGED <<qvars, flushPc, kind, maxRetries, attempt, lastError, opResult,
                   invoked, enqSeq, startSeq, behind, overlapped, rvars, svars, local, idCounter>>
    /\ MeterStep
    /\ TimerStep
    /\ UNCHANGED inner

EntryDone_AtBackoff(p) == p \in {"settled", "returned", "backoff"}

\* processQueue: `await operation.operation()` ends when the wrapper has
\* settled, which is after the whole operation, retries and waits included
EntryDone(p) == p \in {"settled", "returned"}

\* processQueue continues after `await operation.operation()`
WorkerResumes ==
    /\ processing
    /\ awaiting # NoCall
    /\ EntryDone(pc[awaiting])
    /\ UNCHANGED <<flushPc, kind, maxRetries, lastError, promise, settles, enqSeq, behind, overlapped,
                   attemptResult, failures, svars>>
    /\ IF queue # <<>> /\ LoopContinuesAfter(opResult[awaiting].ok)
       THEN /\ UNCHANGED processing
            /\ TakeHead(queue, pc)
       ELSE /\ processing' = FALSE
            /\ awaiting' = NoCall
            /\ UNCHANGED <<queue, pc, beginvars>>
    /\ MeterStep
    /\ TimerStep
    /\ UNCHANGED inner

Cleared_KeepHead(q) == IF q = <<>> THEN q ELSE <<Head(q)>>

\* clear(): this.queue = []
Cleared(q) == <<>>

\* a client calls clear() while entries wait
Clear ==
    /\ queue # <<>>
    /\ queue' = Cleared(queue)
    /\ UNCHANGED <<processing, awaiting, flushPc, cvars, hvars, rvars, svars, local, idCounter>>
    /\ MeterStep
    /\ TimerStep
    /\ UNCHANGED inner

\* flush: one turn of `while (this.queue.length > 0) { await this.processQueue(); await timer }`
FlushLoop ==
    IF queue = <<>>
    THEN /\ flushPc' = "done"
         /\ UNCHANGED <<qvars, cvars, hvars, rvars, svars, local, idCounter>>
    ELSE /\ flushPc' = "timer"
         /\ UNCHANGED <<kind, maxRetries, lastError, promise, settles, enqSeq, behind, overlapped,
                        attemptResult, failures, svars>>
         /\ ProcessQueue(queue, pc)

\* a client calls flush()
Flush ==
    /\ flushPc \in {"idle", "done"}
    /\ FlushLoop
    /\ MeterStep
    /\ TimerStep
    /\ UNCHANGED inner

\* the 1 ms timer of flush() fires
FlushWakes ==
    /\ flushPc = "timer"
    /\ FlushLoop
    /\ MeterStep
    /\ TimerStep
    /\ UNCHANGED inner

\* ------------------------------------------------------------- ConcurrencyService
RetryCalls == 1..NRetryCalls

\* a client calls executeWithRetry(operation, n)
ExecuteWithRetry(c, n) ==
    /\ NextToCall(c)
    /\ kind' = [kind EXCEPT ![c] = "retry"]
    /\ maxRetries' = [maxRetries EXCEPT ![c] = n]
    /\ UNCHANGED <<qvars, flushPc, lastError, promise, settles, enqSeq, startSeq, behind, overlapped,
                   attemptResult, failures, svars>>
    /\ BeginRetry(c, pc)
    /\ MeterStep
    /\ TimerStep
    /\ UNCHANGED inner

\* a client calls executeAtomicWithRetry(operation, n):
\* executeAtomic(() => executeWithRetry(operation, n))
ExecuteAtomicWithRetry(c, n) ==
    /\ NextToCall(c)
    /\ kind' = [kind EXCEPT ![c] = "atomicRetry"]
    /\ maxRetries' = [maxRetries EXCEPT ![c] = n]
    /\ UNCHANGED <<flushPc, lastError, settles, behind, attemptResult, failures, svars>>
    /\ EnqueueEntry(c)
    /\ MeterStep
    /\ TimerStep
    /\ UNCHANGED inner

\* executeWithRetry ends with outcome r: returned to the caller, or handed to
\* the wrapper of enqueue() when the loop is the operation of a queue entry
RetryEnds(c, r) ==
    IF kind[c] \in {"retry"} \cup DirectKinds
    THEN /\ pc' = [pc EXCEPT ![c] = "returned"]
         /\ ret' = [ret EXCEPT ![c] = r]
         /\ UNCHANGED opResult
    ELSE /\ pc' = [pc EXCEPT ![c] = "opdone"]
         /\ opResult' = [opResult EXCEPT ![c] = r]
         /\ UNCHANGED ret

\* an attempt fulfils with v: executeWithRetry returns the result
AttemptResolves(c, v) ==
    /\ kind[c] \in {"retry", "atomicRetry"}
    /\ pc[c] = "running"
    /\ attemptResult' = [attemptResult EXCEPT ![c] = Fulfilled(v)]
    /\ RetryEnds(c, Fulfilled(v))
    /\ UNCHANGED <<qvars, flushPc, kind, maxRetries, attempt, lastError, promise, hvars,
                   failures, attemptSeq, svars, local, idCounter>>
    /\ MeterStep
    /\ TimerStep
    /\ UNCHANGED inner

HasMoreAttempts_OneMore(att, max) == att <= max

\* executeWithRetry: if (attempt < maxRetries) wait, then the next attempt
HasMoreAttempts(att, max) == att < max

NextLastError_KeepFirst(old, m, att) == IF att = 1 THEN m ELSE old

\* executeWithRetry: lastError = error
NextLastError(old, m, att) == m

\* an attempt rejects with message m: back off, or give up after the last
\* one (savePrompt waits after its last attempt too, then gives up)
AttemptFails(c, m) ==
    /\ lastError' = [lastError EXCEPT ![c] = NextLastError(@, m, attempt[c])]
    /\ failures' = [failures EXCEPT ![c] = @ + 1]
    /\ IF HasMoreAttempts(attempt[c], maxRetries[c]) \/ kind[c] \in DirectKinds
       THEN /\ pc' = [pc EXCEPT ![c] = "backoff"]
            /\ UNCHANGED <<opResult, ret>>
       ELSE RetryEnds(c, RetryError(maxRetries[c], lastError'[c]))

AttemptRejects(c, m) ==
    /\ kind[c] \in {"retry", "atomicRetry"}
    /\ pc[c] = "running"
    /\ attemptResult' = [attemptResult EXCEPT ![c] = Rejected(m)]
    /\ behind' = [behind EXCEPT ![c] = Range(queue)]
    /\ UNCHANGED overlapped
    /\ AttemptFails(c, m)
    /\ UNCHANGED <<qvars, flushPc, kind, maxRetries, attempt, promise, invoked, settles,
                   enqSeq, startSeq, attemptSeq, svars, local, idCounter>>
    /\ MeterStep
    /\ TimerStep
    /\ UNCHANGED inner

\* savePrompt / saveContext: the error thrown after the third attempt
SaveError(m) == [ok |-> FALSE, n |-> 0, msg |-> "savePrompt failed after retries: " \o m]

\* deletePrompt / deleteContext: the error thrown after the third attempt
DeleteError(m) == [ok |-> FALSE, n |-> 0, msg |-> "deletePrompt failed after retries: " \o m]

\* the backoff timer fires: attempt++ and the operation is invoked again
BackoffElapses(c) ==
    /\ pc[c] = "backoff"
    /\ UNCHANGED <<qvars, flushPc, kind, maxRetries, lastError, promise,
                   settles, enqSeq, startSeq, behind, overlapped, attemptResult, failures, svars>>
    /\ IF kind[c] \in DirectKinds /\ ~HasMoreAttempts(attempt[c], maxRetries[c])
       THEN /\ RetryEnds(c, IF kind[c] = "save" THEN SaveError(lastError[c])
                                                ELSE DeleteError(lastError[c]))
            /\ UNCHANGED <<attempt, invoked, attemptSeq, local, idCounter>>
       ELSE /\ attempt' = [attempt EXCEPT ![c] = @ + 1]
            /\ BeginAttempt(c, pc)
            /\ UNCHANGED <<opResult, ret>>
    /\ MeterStep
    /\ TimerStep
    /\ UNCHANGED inner

\* executeAtomic continues after `await this.writeQueue.enqueue(operation)`
ExecuteAtomicReturns(c) ==
    /\ pc[c] = "settled"
    /\ pc' = [pc EXCEPT ![c] = "returned"]
    /\ ret' = [ret EXCEPT ![c] = promise[c]]
    /\ UNCHANGED <<qvars, flushPc, kind, maxRetries, attempt, lastError, opResult, promise,
                   hvars, rvars, svars, local, idCounter>>
    /\ MeterStep
    /\ TimerStep
    /\ UNCHANGED inner

\* ------------------------------------------------------------- ChromeStorageService
StoreCalls == 1..NStoreCalls

Times == 1..MaxTime

\* DEFAULT_CONCURRENCY_CONFIG.maxRetries, and the `attempt <= 3` of savePrompt
DefaultMaxRetries == 3

Put(m, id, r) == [k \in DOMAIN m \cup {id} |-> IF k = id THEN r ELSE m[k]]

Remove(m, id) == [k \in DOMAIN m \ {id} |-> m[k]]

Merge_CurrentWins(current, m) ==
    [k \in DOMAIN current \cup DOMAIN m |-> IF k \in DOMAIN current THEN current[k] ELSE m[k]]

\* writePromptsMap: { ...current, ...map }
Merge(current, m) ==
    [k \in DOMAIN current \cup DOMAIN m |-> IF k \in DOMAIN m THEN m[k] ELSE current[k]]

RECURSIVE MigrateFrom_DropNoId(_, _, _, _)
MigrateFrom_DropNoId(arr, i, t, acc) ==
    IF i > Len(arr) THEN acc
    ELSE IF arr[i].id = 0 THEN MigrateFrom_DropNoId(arr, i + 1, t, acc)
    ELSE MigrateFrom_DropNoId(arr, i + 1, t,
             [map |-> Put(acc.map, arr[i].id, arr[i]), n |-> acc.n])

\* readPromptsMap / writePromptsMap: the stored value taken as a map; a
\* missing key and a value that is no object map give {}
ReadMap(val) == IF val.shape = "map" THEN val.map ELSE <<>>

\* readPromptsMap: the loop of the legacy array migration, from item i on;
\* acc.n counts the ids makeId() has produced
RECURSIVE MigrateFrom(_, _, _, _)
MigrateFrom(arr, i, t, acc) ==
    IF i > Len(arr) THEN acc
    ELSE LET item == arr[i]
             id == IF item.id # 0 THEN item.id ELSE makeId(acc.n)
             createdAt == IF item.createdAt # 0 THEN item.createdAt ELSE t
             updatedAt == IF item.updatedAt # 0 THEN item.updatedAt ELSE createdAt
         IN  MigrateFrom(arr, i + 1, t,
                 [map |-> Put(acc.map, id, Rec(id, item.name, createdAt, updatedAt)),
                  n |-> IF item.id # 0 THEN acc.n ELSE acc.n + 1])

CreatedAtFor_PayloadFirst(m, id, p, t) ==
    IF p.createdAt # 0 THEN p.createdAt
    ELSE IF id \in DOMAIN m /\ m[id].createdAt # 0 THEN m[id].createdAt
    ELSE t

\* const createdAt = prev?.createdAt || prompt.createdAt || Date.now()
CreatedAtFor(m, id, p, t) ==
    IF id \in DOMAIN m /\ m[id].createdAt # 0 THEN m[id].createdAt
    ELSE IF p.createdAt # 0 THEN p.createdAt
    ELSE t

SavedRecord_StaleUpdatedAt(m, id, p, t) ==
    Rec(id, p.name, CreatedAtFor(m, id, p, t), IF id \in DOMAIN m THEN m[id].updatedAt ELSE t)

SavedRecord_PayloadId(m, id, p, t) == Rec(p.id, p.name, CreatedAtFor(m, id, p, t), t)

\* { ...prev, ...prompt, id, createdAt, updatedAt: Date.now() }
SavedRecord(m, id, p, t) == Rec(id, p.name, CreatedAtFor(m, id, p, t), t)

\* a step of an operation that goes on to its next await
Proceed(c, newPc, loc) ==
    /\ pc' = [pc EXCEPT ![c] = newPc]
    /\ local' = [local EXCEPT ![c] = loc]
    /\ UNCHANGED <<lastError, failures, opResult, ret, attemptResult>>

\* the locals of an attempt that has ended are gone; the id it worked on is
\* kept for the record
Ended(loc) == [NoLocal EXCEPT !.id = loc.id]

\* the operation of a facade method returns
AttemptOk(c, loc) ==
    /\ attemptResult' = [attemptResult EXCEPT ![c] = Fulfilled("void")]
    /\ local' = [local EXCEPT ![c] = Ended(loc)]
    /\ RetryEnds(c, Fulfilled("void"))
    /\ UNCHANGED <<lastError, failures>>

\* the operation of a facade method throws an error with message m
AttemptErr(c, m, loc) ==
    /\ attemptResult' = [attemptResult EXCEPT ![c] = Rejected(m)]
    /\ local' = [local EXCEPT ![c] = Ended(loc)]
    /\ AttemptFails(c, m)

\* ------------------------------------------------------------- getPrompts / getContexts
\* an id as the string it is: its decimal digits
RECURSIVE IdString(_)
IdString(n) == IF n < 10 THEN <<n>> ELSE Append(IdString(n \div 10), n % 10)

\* a.id.localeCompare(b.id) on such strings: -1, 0 or 1 by the first digit
\* that differs, a proper prefix first
RECURSIVE LocaleCompareFrom(_, _, _)
LocaleCompareFrom(x, y, i) ==
    IF i > Len(x) /\ i > Len(y) THEN 0
    ELSE IF i > Len(x) THEN -1
    ELSE IF i > Len(y) THEN 1
    ELSE IF x[i] < y[i] THEN -1
    ELSE IF x[i] > y[i] THEN 1
    ELSE LocaleCompareFrom(x, y, i + 1)

LocaleCompare(a, b) == LocaleCompareFrom(IdString(a), IdString(b), 1)

\* map[a.id]?.createdAt ?? 0
SortKey(m, id) == IF id \in DOMAIN m THEN m[id].createdAt ELSE 0

Comparator_NoTieBreak(m, a, b) == SortKey(m, a.id) - SortKey(m, b.id)

\* the comparator of arr.sort: by createdAt, then by id
Comparator(m, a, b) ==
    IF SortKey(m, a.id) # SortKey(m, b.id)
    THEN SortKey(m, a.id) - SortKey(m, b.id)
    ELSE LocaleCompare(a.id, b.id)

\* Array.prototype.sort is stable: x goes behind every entry that does not
\* compare greater than it
RECURSIVE InsertSorted(_, _, _)
InsertSorted(m, sorted, x) ==
    IF sorted = <<>> THEN <<x>>
    ELSE IF Comparator(m, sorted[Len(sorted)], x) <= 0 THEN Append(sorted, x)
    ELSE Append(InsertSorted(m, SubSeq(sorted, 1, Len(sorted) - 1), x), sorted[Len(sorted)])

RECURSIVE SortFrom(_, _, _, _)
SortFrom(m, arr, i, sorted) ==
    IF i > Len(arr) THEN sorted
    ELSE SortFrom(m, arr, i + 1, InsertSorted(m, sorted, arr[i]))

\* the orders in which Object.values(map) can give the records of a map
\* with these keys
RECURSIVE OrdersOf(_)
OrdersOf(S) ==
    IF S = {} THEN {<<>>}
    ELSE UNION {{<<x>> \o o : o \in OrdersOf(S \ {x})} : x \in S}

Enumerations(m) == OrdersOf(DOMAIN m)

\* Object.values(map).map(r => ({ id: r.id, name: r.name, ... })), sorted
mapToList(m, order) ==
    SortFrom(m, [i \in DOMAIN order |-> [id |-> m[order[i]].id, name |-> m[order[i]].name]],
             1, <<>>)

\* getPrompts / getContexts returns the list, or rejects with the error
\* thrown on the way
ListEnds(c, r, loc) ==
    /\ pc' = [pc EXCEPT ![c] = "returned"]
    /\ ret' = [ret EXCEPT ![c] = r]
    /\ local' = [local EXCEPT ![c] = loc]
    /\ UNCHANGED <<lastError, failures, opResult, attemptResult>>

\* the message of the error a failed verification raises
VerifyMessage(k) ==
    CASE k = "saveAtomic" -> "Atomic write verification failed"
      [] k = "deleteAtomic" -> "Atomic delete verification failed"
      [] k = "delete" -> "delete did not persist, retrying"
      [] OTHER -> "write did not persist entry, retrying"

HasOwn_Always(m, id) == TRUE

\* deletePromptAtomic: if (map.hasOwnProperty(id))
HasOwn(m, id) == id \in DOMAIN m

\* the operation goes on after `await this.readPromptsMap()` gave map m:
\* the first read of a save or a delete, or the verification read
\* the post-write check of a save, if (!after[id]): only the presence of the id
\* in the map read back is looked at
NotPersisted_Never(after, id) == FALSE

NotPersisted(after, id) == id \notin DOMAIN after

AfterRead(c, m, loc, t) ==
    IF kind[c] = "get"
    THEN \E order \in Enumerations(m) :
             ListEnds(c, Fulfilled("list"), [loc EXCEPT !.map = m, !.list = mapToList(m, order)])
    ELSE IF loc.phase = "first"
    THEN IF kind[c] \in {"saveAtomic", "save"}
         THEN Proceed(c, "wGet",
                  [loc EXCEPT !.map = Put(m, loc.id, SavedRecord(m, loc.id, payload[c], t))])
         ELSE IF kind[c] = "delete"
         THEN Proceed(c, "wGet",
                  [loc EXCEPT !.map = IF HasOwn(m, loc.id) THEN Remove(m, loc.id) ELSE m])
         ELSE IF HasOwn(m, loc.id)
              THEN Proceed(c, "wSet", [loc EXCEPT !.toWrite = Remove(m, loc.id)])
              ELSE AttemptOk(c, loc)
    ELSE IF kind[c] \in {"saveAtomic", "save"}
         THEN IF NotPersisted(m, loc.id)
              THEN AttemptErr(c, VerifyMessage(kind[c]), loc)
              ELSE AttemptOk(c, loc)
         ELSE IF loc.id \in DOMAIN m
              THEN AttemptErr(c, VerifyMessage(kind[c]), loc)
              ELSE AttemptOk(c, loc)

\* readPromptsMap resolved null (typeof null is 'object'): Object.values(map),
\* map[id], map.hasOwnProperty(id) and after[id] throw a TypeError
UseOfNull(c, loc) ==
    IF kind[c] = "get"
    THEN ListEnds(c, Rejected("TypeError"), loc)
    ELSE AttemptErr(c, "TypeError", loc)

\* the backing store of the run is out of order: every get and every set
\* calls back with chrome.runtime.lastError set
Outage == mode = "outage"

\* what a callback of chrome.storage.local leaves alone
ioframe == <<qvars, flushPc, kind, maxRetries, attempt, promise, invoked, settles, enqSeq,
             startSeq, behind, overlapped, attemptSeq, mock, mode, payload>>

\* Date.now() gives t: the clock never runs backwards, and a handler that
\* does not read it leaves the last reading as it is; in the runs explored
\* at most one tick passes between two readings
DateNow(t, reads) ==
    /\ t \in now..Min(now + 1, MaxTime)
    /\ ~reads => t = now
    /\ now' = t

\* readPromptsMap: the callback of chrome.storage.local.get
GetReturns(c, t) ==
    /\ pc[c] = "read"
    /\ ~Outage
    /\ UNCHANGED <<ioframe, store>>
    /\ LET val == store[payload[c].key]
       IN  /\ DateNow(t, val.shape = "array"
                            \/ (local[c].phase = "first" /\ kind[c] \in {"saveAtomic", "save"}
                                /\ val.shape # "null"))
           /\ IF val.shape = "array"
              THEN LET mg == MigrateFrom(val.arr, 1, t, [map |-> <<>>, n |-> idCounter])
                   IN  /\ idCounter' = mg.n
                       /\ Proceed(c, "wGet", [local[c] EXCEPT !.map = mg.map, !.mig = TRUE])
              ELSE IF val.shape = "null"
              THEN /\ UNCHANGED idCounter
                   /\ UseOfNull(c, local[c])
              ELSE /\ UNCHANGED idCounter
                   /\ AfterRead(c, ReadMap(val), local[c], t)
    /\ MeterStep
    /\ TimerStep
    /\ UNCHANGED inner

\* writePromptsMap, merge branch: the callback of chrome.storage.local.get
WGetReturns(c) ==
    /\ pc[c] = "wGet"
    /\ ~Outage
    /\ UNCHANGED <<ioframe, store, idCounter, now>>
    /\ Proceed(c, "wSet",
           [local[c] EXCEPT !.toWrite = Merge(ReadMap(store[payload[c].key]), local[c].map)])
    /\ MeterStep
    /\ TimerStep
    /\ UNCHANGED inner

KeyWritten_Prompts(c) == "prompts"

\* chrome.storage.local.set({ [STORAGE_KEY]: merged }) in writePromptsMap,
\* { [CONTEXTS_STORAGE_KEY]: merged } in writeContextsMap
KeyWritten(c) == payload[c].key

\* writePromptsMap: the callback of chrome.storage.local.set; the write of a
\* migration resolves the read it is part of, the write of a save or delete
\* is followed by the verification read
SetReturns(c, t) ==
    /\ pc[c] = "wSet"
    /\ ~Outage
    /\ store' = [store EXCEPT ![KeyWritten(c)] = MapVal(local[c].toWrite)]
    /\ UNCHANGED <<ioframe, idCounter>>
    /\ DateNow(t, local[c].mig /\ local[c].phase = "first"
                     /\ kind[c] \in {"saveAtomic", "save"})
    /\ IF local[c].mig
       THEN AfterRead(c, local[c].map, [local[c] EXCEPT !.mig = FALSE], t)
       ELSE Proceed(c, "read", [Ended(local[c]) EXCEPT !.phase = "verify"])
    /\ MeterStep
    /\ TimerStep
    /\ UNCHANGED inner

RECURSIVE SumTo(_, _)
SumTo(f, n) == IF n = 0 THEN 0 ELSE f[n] + SumTo(f, n - 1)

\* the runs explored: the backing store fails callbacks of the first call of
\* a run, whatever else is under way, and serves the later calls
FaultWindow(c) == c = 1

\* a callback of chrome.storage.local finds chrome.runtime.lastError set
IOFails(c) ==
    /\ pc[c] \in {"read", "wGet", "wSet"}
    /\ Outage \/ (SumTo(failures, NCalls) < MaxFaults /\ FaultWindow(c))
    /\ UNCHANGED <<ioframe, store, idCounter, now>>
    /\ IF kind[c] = "get"
       THEN ListEnds(c, Rejected("io"), local[c])
       ELSE AttemptErr(c, "io", local[c])
    /\ MeterStep
    /\ TimerStep
    /\ UNCHANGED inner

\* the payloads of the save methods: without an id, with the id of a record
\* the store may hold (with and without a createdAt of the caller's), with a
\* fresh id
Payloads ==
    { [key |-> k, id |-> p[1], createdAt |-> p[2], name |-> 0] :
        k \in Keys, p \in {<<0, 0>>, <<1, 9>>, <<2, 0>>} }

\* the callers of the runs that address the contexts collection, whose
\* methods are copies of the prompts methods
ContextCallers == {1, 2}

\* the calls of one run address one collection, prompts or contexts, except
\* in the runs whose clients use both ("mixed")
SameCollection(k) ==
    \/ mode = "mixed"
    \/ /\ \A d \in Calls : pc[d] # "idle" => payload[d].key = k
       /\ k = "contexts" => \A d \in Calls : pc[d] # "idle" => d + 1 \in ContextCallers

\* a client calls savePromptAtomic / saveContextAtomic on a facade that has
\* a concurrency service
SaveAtomic(c, p) ==
    /\ mode \in {"atomic", "outage", "mixed"}
    /\ SameCollection(p.key)
    /\ NextToCall(c)
    /\ kind' = [kind EXCEPT ![c] = "saveAtomic"]
    /\ maxRetries' = [maxRetries EXCEPT ![c] = DefaultMaxRetries]
    /\ payload' = [payload EXCEPT ![c] = [p EXCEPT !.name = c]]
    /\ UNCHANGED <<flushPc, lastError, settles, behind, attemptResult, failures,
                   store, mock, now, mode>>
    /\ EnqueueEntry(c)
    /\ MeterStep
    /\ TimerStep
    /\ UNCHANGED inner

\* a client calls deletePromptAtomic / deleteContextAtomic
DeleteAtomic(c, k, id) ==
    /\ mode \in {"atomic", "outage", "mixed"}
    /\ SameCollection(k)
    /\ NextToCall(c)
    /\ kind' = [kind EXCEPT ![c] = "deleteAtomic"]
    /\ maxRetries' = [maxRetries EXCEPT ![c] = DefaultMaxRetries]
    /\ payload' = [payload EXCEPT ![c] = [key |-> k, id |-> id, createdAt |-> 0, name |-> c]]
    /\ UNCHANGED <<flushPc, lastError, settles, behind, attemptResult, failures,
                   store, mock, now, mode>>
    /\ EnqueueEntry(c)
    /\ MeterStep
    /\ TimerStep
    /\ UNCHANGED inner

\* a client calls getPrompts / getContexts
GetList(c, k) ==
    /\ mode \in {"atomic", "direct", "mixed"}
    /\ SameCollection(k)
    /\ NextToCall(c)
    /\ kind' = [kind EXCEPT ![c] = "get"]
    /\ payload' = [payload EXCEPT ![c] = [NoPayload EXCEPT !.key = k, !.name = c]]
    /\ pc' = [pc EXCEPT ![c] = "read"]
    /\ local' = [local EXCEPT ![c] = NoLocal]
    /\ UNCHANGED <<qvars, flushPc, maxRetries, attempt, lastError, opResult, promise, ret,
                   hvars, rvars, store, mock, now, mode, idCounter>>
    /\ MeterStep
    /\ TimerStep
    /\ UNCHANGED inner

\* a client calls savePrompt / saveContext (also what savePromptAtomic does
\* on a facade without a concurrency service); in a direct run no other
\* writer is active, in a race run callers do not wait for one another
Save(c, p) ==
    /\ mode \in {"direct", "race", "mixed"}
    /\ SameCollection(p.key)
    /\ NextToCall(c)
    /\ mode \in {"direct", "mixed"} => \A d \in Calls : pc[d] \in {"idle", "returned"}
    /\ kind' = [kind EXCEPT ![c] = "save"]
    /\ maxRetries' = [maxRetries EXCEPT ![c] = DefaultMaxRetries]
    /\ payload' = [payload EXCEPT ![c] = [p EXCEPT !.name = c]]
    /\ attempt' = [attempt EXCEPT ![c] = 1]
    /\ invoked' = [invoked EXCEPT ![c] = @ + 1]
    /\ pc' = [pc EXCEPT ![c] = "read"]
    /\ local' = [local EXCEPT ![c] =
                    [NoLocal EXCEPT !.id = IF p.id # 0 THEN p.id ELSE makeId(idCounter)]]
    /\ idCounter' = IF p.id = 0 THEN idCounter + 1 ELSE idCounter
    /\ UNCHANGED <<qvars, flushPc, lastError, opResult, promise, ret, settles, enqSeq,
                   startSeq, behind, overlapped, rvars, store, mock, now, mode>>
    /\ MeterStep
    /\ TimerStep
    /\ UNCHANGED inner

\* a client calls deletePrompt / deleteContext (also what deletePromptAtomic
\* does on a facade without a concurrency service), no other writer being
\* active; the delete writes through the merge branch of writePromptsMap
Delete(c, k, id) ==
    /\ mode \in {"direct", "mixed"}
    /\ SameCollection(k)
    /\ NextToCall(c)
    /\ \A d \in Calls : pc[d] \in {"idle", "returned"}
    /\ kind' = [kind EXCEPT ![c] = "delete"]
    /\ maxRetries' = [maxRetries EXCEPT ![c] = DefaultMaxRetries]
    /\ payload' = [payload EXCEPT ![c] = [key |-> k, id |-> id, createdAt |-> 0, name |-> c]]
    /\ attempt' = [attempt EXCEPT ![c] = 1]
    /\ invoked' = [invoked EXCEPT ![c] = @ + 1]
    /\ pc' = [pc EXCEPT ![c] = "read"]
    /\ local' = [local EXCEPT ![c] = [NoLocal EXCEPT !.id = id]]
    /\ UNCHANGED <<qvars, flushPc, lastError, opResult, promise, ret, settles, enqSeq,
                   startSeq, behind, overlapped, rvars, store, mock, now, mode, idCounter>>
    /\ MeterStep
    /\ TimerStep
    /\ UNCHANGED inner

\* ------------------------------------------------------------- MockStorageService
\* savePrompt / saveContext, and the atomic variants that call them
MockSave(c, p, t) ==
    /\ mode = "mock"
    /\ SameCollection(p.key)
    /\ NextToCall(c)
    /\ DateNow(t, TRUE)
    /\ LET id == IF p.id # 0 THEN p.id ELSE makeId(idCounter)
           q == [p EXCEPT !.name = c]
       IN  /\ mock' = [mock EXCEPT ![p.key] = Put(@, id, SavedRecord(@, id, q, t))]
           /\ payload' = [payload EXCEPT ![c] = q]
           /\ local' = [local EXCEPT ![c] = [NoLocal EXCEPT !.id = id]]
    /\ idCounter' = IF p.id = 0 THEN idCounter + 1 ELSE idCounter
    /\ kind' = [kind EXCEPT ![c] = "mockSave"]
    /\ pc' = [pc EXCEPT ![c] = "returned"]
    /\ ret' = [ret EXCEPT ![c] = Fulfilled("void")]
    /\ UNCHANGED <<qvars, flushPc, maxRetries, attempt, lastError, opResult, promise,
                   hvars, rvars, store, mode>>
    /\ MeterStep
    /\ TimerStep
    /\ UNCHANGED inner

\* deletePrompt / deleteContext, and the atomic variants that call them
MockDelete(c, k, id) ==
    /\ mode = "mock"
    /\ SameCollection(k)
    /\ NextToCall(c)
    /\ mock' = [mock EXCEPT ![k] = Remove(@, id)]
    /\ payload' = [payload EXCEPT ![c] = [key |-> k, id |-> id, createdAt |-> 0, name |-> c]]
    /\ kind' = [kind EXCEPT ![c] = "mockDelete"]
    /\ pc' = [pc EXCEPT ![c] = "returned"]
    /\ ret' = [ret EXCEPT ![c] = Fulfilled("void")]
    /\ UNCHANGED <<qvars, flushPc, maxRetries, attempt, lastError, opResult, promise,
                   hvars, rvars, store, now, mode, local, idCounter>>
    /\ MeterStep
    /\ TimerStep
    /\ UNCHANGED inner

\* ------------------------------------------------------------- specifications
InitCalls ==
    /\ kind = [c \in Calls |-> "none"]
    /\ pc = [c \in Calls |-> "idle"]
    /\ maxRetries = [c \in Calls |-> 0]
    /\ attempt = [c \in Calls |-> 0]
    /\ lastError = [c \in Calls |-> ""]
    /\ opResult = [c \in Calls |-> Pending]
    /\ promise = [c \in Calls |-> Pending]
    /\ ret = [c \in Calls |-> Pending]
    /\ invoked = [c \in Calls |-> 0]
    /\ settles = [c \in Calls |-> 0]
    /\ enqSeq = <<>>
    /\ startSeq = <<>>
    /\ behind = [c \in Calls |-> {}]
    /\ overlapped = {}
    /\ attemptResult = [c \in Calls |-> Pending]
    /\ failures = [c \in Calls |-> 0]
    /\ attemptSeq = <<>>
    /\ payload = [c \in Calls |-> NoPayload]
    /\ local = [c \in Calls |-> NoLocal]
    /\ idCounter = 0

InitService(cfg) ==
    /\ queue = <<>>
    /\ meter = NoMeter
    /\ timer = NoTimer(cfg)
    /\ inner = [c \in Calls |-> NoCall]
    /\ processing = FALSE
    /\ awaiting = NoCall
    /\ flushPc = "idle"
    /\ InitCalls

InitQueue == InitService(DEFAULT_CONCURRENCY_CONFIG)

\* the queue and the executor used without the storage facade
Init ==
    /\ InitQueue
    /\ store = [k \in Keys |-> Absent]
    /\ mock = [k \in Keys |-> <<>>]
    /\ now = 1
    /\ mode = "none"

\* the messages of the errors an attempt of call c throws: in the runs
\* explored the error without a message is thrown in the first call
MsgsOf(c) == IF c = 1 THEN Msgs ELSE Msgs \ {""}

\* the results of the operation of entry c: in the runs explored the
\* operations after the first have one result
ValsOf(c) == IF c = 1 THEN Vals ELSE {"v1"}

\* the write queue used directly, with arbitrary operations
NextQueue ==
    \/ \E c \in Calls : Enqueue(c)
    \/ \E c \in Calls : \E v \in ValsOf(c) : OpResolves(c, v)
    \/ \E c \in Calls : \E m \in MsgsOf(c) : OpRejects(c, m)
    \/ \E c \in Calls : WrapperSettles(c)
    \/ WorkerResumes
    \/ Clear
    \/ Flush
    \/ FlushWakes

SpecQueue == Init /\ [][NextQueue]_vars

\* the executor with arbitrary operations, alone and through the queue
NextRetry ==
    \/ \E c \in RetryCalls, n \in 0..MaxRetriesArg : ExecuteWithRetry(c, n)
    \/ \E c \in RetryCalls, n \in 0..MaxRetriesArg : ExecuteAtomicWithRetry(c, n)
    \/ \E c \in RetryCalls, v \in AttemptVals : AttemptResolves(c, v)
    \/ \E c \in RetryCalls : \E m \in MsgsOf(c) : AttemptRejects(c, m)
    \/ \E c \in RetryCalls : BackoffElapses(c)
    \/ \E c \in RetryCalls : WrapperSettles(c)
    \/ \E c \in RetryCalls : ExecuteAtomicReturns(c)
    \/ WorkerResumes

SpecRetry == Init /\ [][NextRetry]_vars

\* what the backing store holds when the facade is constructed: nothing, a
\* map (as the demo seed writes it), or a legacy array, one item without id
\* and timestamps
InitValues ==
    { Absent,
      MapVal(1 :> Rec(1, 0, 1, 1)),
      ArrVal(<<Rec(2, 0, 1, 1), Rec(0, 0, 0, 0)>>) }

\* what the backing store may hold when a client reads it: every shape of
\* value, maps with ties of createdAt and a record without createdAt, legacy
\* arrays
ReadValues ==
    { Absent, NullVal, OtherVal,
      MapVal(1 :> Rec(1, 0, 2, 2) @@ 2 :> Rec(2, 0, 1, 1) @@ 100 :> Rec(100, 0, 1, 2)),
      MapVal(1 :> Rec(1, 0, 1, 1) @@ 2 :> Rec(2, 0, 0, 0)),
      ArrVal(<<Rec(2, 11, 1, 1), Rec(0, 12, 0, 0)>>),
      ArrVal(<<Rec(2, 11, 2, 2), Rec(1, 12, 1, 1), Rec(100, 13, 1, 0)>>) }

\* ChromeStorageService with a concurrency service: clients list the records
\* while atomic saves and deletes are under way
InitRead ==
    /\ InitQueue
    /\ now = 1
    /\ mode = "atomic"
    /\ \E v \in ReadValues : store = [k \in Keys |-> v]
    /\ mock = [k \in Keys |-> <<>>]

ReadPayloads == {p \in Payloads : p.createdAt = 0 /\ p.id \in {0, 1}}

NextRead ==
    \/ \E c \in StoreCalls, k \in Keys : GetList(c, k)
    \/ \E c \in StoreCalls, p \in ReadPayloads : SaveAtomic(c, p)
    \/ \E c \in StoreCalls, k \in Keys : DeleteAtomic(c, k, 1)
    \/ \E c \in StoreCalls, t \in Times : GetReturns(c, t)
    \/ \E c \in StoreCalls : WGetReturns(c)
    \/ \E c \in StoreCalls, t \in Times : SetReturns(c, t)
    \/ \E c \in StoreCalls : BackoffElapses(c)
    \/ \E c \in StoreCalls : WrapperSettles(c)
    \/ WorkerResumes

SpecRead == InitRead /\ [][NextRead]_vars

\* MockStorageService: the maps of a new instance; the constructor takes an
\* initial prompts map in their place
MockDefault == [k \in Keys |-> 1 :> Rec(1, 0, 1, 1) @@ 2 :> Rec(2, 0, 1, 1)]

\* one facade per run: ChromeStorageService with a concurrency service
\* ("atomic"), the same on a backing store that is out of order ("outage"),
\* without a concurrency service and with a single writer ("direct"), or
\* MockStorageService ("mock")
InitStore ==
    /\ InitQueue
    /\ now = 1
    /\ mode \in {"atomic", "outage", "direct", "mock"}
    /\ IF mode = "mock"
       THEN /\ store = [k \in Keys |-> Absent]
            /\ mock \in {MockDefault, [MockDefault EXCEPT !["prompts"] = <<>>]}
       ELSE /\ \E v \in InitValues : store = [k \in Keys |-> v]
            /\ mock = [k \in Keys |-> <<>>]

NextStore ==
    \/ \E c \in StoreCalls, p \in Payloads : SaveAtomic(c, p)
    \/ \E c \in StoreCalls, k \in Keys : DeleteAtomic(c, k, 1)
    \/ \E c \in StoreCalls, p \in Payloads : Save(c, p)
    \/ \E c \in StoreCalls, k \in Keys : Delete(c, k, 1)
    \/ \E c \in StoreCalls, t \in Times : GetReturns(c, t)
    \/ \E c \in StoreCalls : WGetReturns(c)
    \/ \E c \in StoreCalls, t \in Times : SetReturns(c, t)
    \/ \E c \in StoreCalls : IOFails(c)
    \/ \E c \in StoreCalls : BackoffElapses(c)
    \/ \E c \in StoreCalls : WrapperSettles(c)
    \/ WorkerResumes
    \/ \E c \in StoreCalls, p \in Payloads, t \in Times : MockSave(c, p, t)
    \/ \E c \in StoreCalls, k \in Keys, id \in {1, 2} : MockDelete(c, k, id)

SpecStore == InitStore /\ [][NextStore]_vars

\* atomic saves and deletes on a backing store that serves every call: the
\* store holds a map, or nothing
SerialValues ==
    { Absent,
      MapVal(1 :> Rec(1, 0, 1, 1)),
      MapVal(1 :> Rec(1, 0, 1, 1) @@ 2 :> Rec(2, 0, 1, 1)) }

InitSerial ==
    /\ InitQueue
    /\ now = 1
    /\ mode = "atomic"
    /\ \E v \in SerialValues : store = [k \in Keys |-> v]
    /\ mock = [k \in Keys |-> <<>>]

NextSerial ==
    \/ \E c \in StoreCalls, p \in Payloads : SaveAtomic(c, p)
    \/ \E c \in StoreCalls, k \in Keys, id \in {1, 2} : DeleteAtomic(c, k, id)
    \/ \E c \in StoreCalls, t \in Times : GetReturns(c, t)
    \/ \E c \in StoreCalls : WGetReturns(c)
    \/ \E c \in StoreCalls, t \in Times : SetReturns(c, t)
    \/ \E c \in StoreCalls : WrapperSettles(c)
    \/ WorkerResumes

SpecSerial == InitSerial /\ [][NextSerial]_vars

\* the executor constructed with a configuration of its caller's choice
BaseDelays == {1, 3, 10}
MaxDelays == {5, 1000}
Configs == [baseDelayMs : BaseDelays, maxDelayMs : MaxDelays]

InitBackoff ==
    /\ \E cfg \in Configs : InitService(cfg)
    /\ store = [k \in Keys |-> Absent]
    /\ mock = [k \in Keys |-> <<>>]
    /\ now = 1
    /\ mode = "none"

\* the maxRetries arguments of these runs: enough attempts for the delay to
\* double more than once
BackoffRetries == 1..(MaxRetriesArg + 2)

NextBackoff ==
    \/ \E c \in RetryCalls, n \in BackoffRetries : ExecuteWithRetry(c, n)
    \/ \E c \in RetryCalls : AttemptResolves(c, "v1")
    \/ \E c \in RetryCalls : AttemptRejects(c, "m1")
    \/ \E c \in RetryCalls : BackoffElapses(c)

SpecBackoff == InitBackoff /\ [][NextBackoff]_vars

\* non-atomic saves called without waiting for one another, on a backing
\* store that serves every call
InitRace ==
    /\ InitQueue
    /\ now = 1
    /\ mode = "race"
    /\ \E v \in SerialValues : store = [k \in Keys |-> v]
    /\ mock = [k \in Keys |-> <<>>]

\* the two callers of the race
Racers == {1, 2}

NextRace ==
    \/ \E c \in Racers, p \in Payloads : Save(c, p)
    \/ \E c \in Racers, t \in Times : GetReturns(c, t)
    \/ \E c \in Racers : WGetReturns(c)
    \/ \E c \in Racers, t \in Times : SetReturns(c, t)
    \/ \E c \in Racers : BackoffElapses(c)

SpecRace == InitRace /\ [][NextRace]_vars

\* one facade with a concurrency service whose clients address both
\* collections, with the atomic and the plain methods and getPrompts /
\* getContexts; either key may hold a legacy array
\* what a key holds at the start: nothing, an empty map, a legacy array
MixedValues == {Absent, MapVal(<<>>), ArrVal(<<Rec(2, 0, 1, 1), Rec(0, 0, 0, 0)>>)}

InitMixed ==
    /\ InitQueue
    /\ now = 1
    /\ mode = "mixed"
    /\ store \in [Keys -> MixedValues]
    /\ mock = [k \in Keys |-> <<>>]

MixedPayloads == {p \in Payloads : p.id \in {0, 1}}

\* the callers of these runs: one for each collection
MixedCallers == {1, 2}

NextMixed ==
    \/ \E c \in MixedCallers, k \in Keys : GetList(c, k)
    \/ \E c \in MixedCallers, p \in MixedPayloads : SaveAtomic(c, p)
    \/ \E c \in MixedCallers, k \in Keys : DeleteAtomic(c, k, 1)
    \/ \E c \in MixedCallers, p \in MixedPayloads : Save(c, p)
    \/ \E c \in MixedCallers, k \in Keys : Delete(c, k, 1)
    \/ \E c \in MixedCallers, t \in Times : GetReturns(c, t)
    \/ \E c \in MixedCallers : WGetReturns(c)
    \/ \E c \in MixedCallers, t \in Times : SetReturns(c, t)
    \/ \E c \in MixedCallers : BackoffElapses(c)
    \/ \E c \in MixedCallers : WrapperSettles(c)
    \/ WorkerResumes

SpecMixed == InitMixed /\ [][NextMixed]_vars

\* the name of a record that another client of the backing store wrote
Foreign == 50

\* another client of chrome.storage.local (another page of the extension,
\* with a queue of its own) replaces the record a save has just written, or
\* removes it, before the save's verification read
ForeignWrite(c, replace) ==
    /\ kind[c] \in {"saveAtomic", "save"}
    /\ pc[c] = "read" /\ local[c].phase = "verify"
    /\ LET k == payload[c].key
           id == local[c].id
           m == ReadMap(store[k])
       IN  /\ id \in DOMAIN m /\ m[id].name = c
           /\ store' = [store EXCEPT ![k] =
                  MapVal(IF replace
                         THEN Put(m, id, [m[id] EXCEPT !.name = Foreign])
                         ELSE Remove(m, id))]
    /\ UNCHANGED <<qvars, flushPc, cvars, hvars, rvars, mock, now, mode, payload,
                   local, idCounter, meter, timer, inner>>

\* saves, atomic or not, on a backing store shared with another client
InitShared ==
    /\ InitQueue
    /\ now = 1
    /\ mode \in {"atomic", "direct"}
    /\ \E v \in SerialValues : store = [k \in Keys |-> v]
    /\ mock = [k \in Keys |-> <<>>]

NextShared ==
    \/ \E c \in StoreCalls, p \in Payloads : SaveAtomic(c, p)
    \/ \E c \in StoreCalls, p \in Payloads : Save(c, p)
    \/ \E c \in StoreCalls, t \in Times : GetReturns(c, t)
    \/ \E c \in StoreCalls : WGetReturns(c)
    \/ \E c \in StoreCalls, t \in Times : SetReturns(c, t)
    \/ \E c \in StoreCalls, replace \in BOOLEAN : ForeignWrite(c, replace)
    \/ \E c \in StoreCalls : BackoffElapses(c)
    \/ \E c \in StoreCalls : WrapperSettles(c)
    \/ WorkerResumes

SpecShared == InitShared /\ [][NextShared]_vars

\* the two layers with their metrics followed: executeAtomicWithRetry calls
\* of one attempt, the clock running, resetMetrics()
MeterCalls == 1..NRetryCalls
MeterRetries == {1}

InitMetrics ==
    /\ InitQueue
    /\ store = [k \in Keys |-> Absent]
    /\ mock = [k \in Keys |-> <<>>]
    /\ now = 1
    /\ mode = "metered"

NextMetrics ==
    \/ \E c \in MeterCalls, n \in MeterRetries : ExecuteAtomicWithRetry(c, n)
    \/ \E c \in MeterCalls, v \in AttemptVals : AttemptResolves(c, v)
    \/ \E c \in MeterCalls : AttemptRejects(c, "m1")
    \/ \E c \in MeterCalls : WrapperSettles(c)
    \/ WorkerResumes
    \/ \E c \in MeterCalls : ExecuteAtomicReturns(c)
    \/ ResetMetrics
    \/ Tick

SpecMetrics == InitMetrics /\ [][NextMetrics]_vars

\* the executor called with a maxRetries that admits no attempt
NonPositive == {-1, 0}

NextZero ==
    \/ \E c \in MeterCalls, n \in NonPositive : ExecuteWithRetry(c, n)
    \/ \E c \in MeterCalls, n \in NonPositive : ExecuteAtomicWithRetry(c, n)
    \/ \E c \in MeterCalls : WrapperSettles(c)
    \/ WorkerResumes
    \/ \E c \in MeterCalls : ExecuteAtomicReturns(c)
    \/ Tick

SpecZero == InitMetrics /\ [][NextZero]_vars

\* executeAtomicWithRetry calls whose operations fail and are retried, the
\* metrics being left to accumulate; the counters do not depend on the
\* clock, which stands still in these runs
AttemptRetries == 1..MaxRetriesArg

NextAttempts ==
    \/ \E c \in MeterCalls, n \in AttemptRetries : ExecuteAtomicWithRetry(c, n)
    \/ \E c \in MeterCalls, v \in AttemptVals : AttemptResolves(c, v)
    \/ \E c \in MeterCalls : AttemptRejects(c, "m1")
    \/ \E c \in MeterCalls : BackoffElapses(c)
    \/ \E c \in MeterCalls : WrapperSettles(c)
    \/ WorkerResumes
    \/ \E c \in MeterCalls : ExecuteAtomicReturns(c)

SpecAttempts == InitMetrics /\ [][NextAttempts]_vars

\* The event loop runs every continuation that is ready, and the operations
\* handed to the queue are taken to settle.
FairQueue ==
    /\ WF_vars(WorkerResumes)
    /\ \A c \in Calls : WF_vars(WrapperSettles(c))
    /\ \A c \in Calls : WF_vars((\E v \in ValsOf(c) : OpResolves(c, v)) \/ (\E m \in MsgsOf(c) : OpRejects(c, m)))

FairSpecQueue == SpecQueue /\ FairQueue

\* the write queue on which clear() is never called
NextLive ==
    \/ \E c \in Calls : Enqueue(c)
    \/ \E c \in Calls : \E v \in ValsOf(c) : OpResolves(c, v)
    \/ \E c \in Calls : \E m \in MsgsOf(c) : OpRejects(c, m)
    \/ \E c \in Calls : WrapperSettles(c)
    \/ WorkerResumes
    \/ Flush
    \/ FlushWakes

SpecLive == Init /\ [][NextLive]_vars /\ FairQueue

\* the write queue whose operations may submit entries to it
NextNested ==
    \/ \E c \in Calls : Enqueue(c)
    \/ \E c, d \in Calls : OpSubmits(c, d)
    \/ \E c \in Calls : \E v \in ValsOf(c) : OpResolves(c, v)
    \/ \E c \in Calls : \E m \in MsgsOf(c) : OpRejects(c, m)
    \/ \E c \in Calls : WrapperSettles(c)
    \/ WorkerResumes
    \/ Clear

SpecNested == Init /\ [][NextNested]_vars

\* ------------------------------------------------------------- properties
\* the operation of entry c was started and has not settled
Executing(c) ==
    kind[c] \in QueuedKinds /\ pc[c] \in {"running", "backoff", "read", "wGet", "wSet"}

\* the operation of entry c has settled
OpSettled(c) == pc[c] \in {"opdone", "settled", "returned"}

\* entry c was removed by clear() before it was started
Discarded(c) == pc[c] = "queued" /\ c \notin Range(queue)

\* the worker is never idle while entries wait
WorkerInv == (~processing => queue = <<>>) /\ (processing <=> awaiting # NoCall)

\* C2: in every reachable state of the queue, whatever the interleaving of
\* enqueue(), flush(), clear() and completions, at most one operation has
\* started and not yet settled.
C2_AtMostOneExecuting == Cardinality({c \in Calls : Executing(c)}) <= 1

C2_Witness ==
    /\ \E c \in Calls : Executing(c)
    /\ queue # <<>>
    /\ flushPc = "timer"

\* C3: entries start in the order enqueue() was called, and an entry does not
\* start before every entry enqueued ahead of it has settled, fulfilled or
\* rejected (an entry clear() removed never starts and is left out).
C3_FifoStartOrder ==
    /\ \A i, j \in 1..Len(startSeq) :
          i < j => IndexOf(enqSeq, startSeq[i]) < IndexOf(enqSeq, startSeq[j])
    /\ \A b \in Range(startSeq) : \A a \in Range(enqSeq) :
          IndexOf(enqSeq, a) < IndexOf(enqSeq, b) => OpSettled(a) \/ Discarded(a)

C3_Witness ==
    \E a, b, c \in Calls :
        /\ {b, c} \subseteq behind[a]
        /\ b # c
        /\ startSeq = <<a, b, c>>

\* C4: an operation handed to enqueue() that gets started is invoked exactly
\* once, and the promise enqueue() returned settles exactly once, fulfilled
\* with the operation's result or rejected with the operation's error.
C4_PromiseMirrorsOp ==
    \A c \in Calls : kind[c] = "op" =>
        /\ invoked[c] = (IF c \in Range(startSeq) THEN 1 ELSE 0)
        /\ IF pc[c] = "returned"
           THEN settles[c] = 1 /\ promise[c] = opResult[c] /\ ret[c] = opResult[c]
           ELSE settles[c] = 0 /\ promise[c] = Pending

C4_Witness ==
    \E a, b \in Calls :
        /\ pc[a] = "returned" /\ promise[a] = Rejected("m1")
        /\ pc[b] = "returned" /\ promise[b] = Fulfilled("v2")

\* C5: when an operation run by the worker rejects, the loop goes on: every
\* entry that was queued behind it is still started and settled (unless
\* clear() removed it), and the processing flag is released once the queue
\* is empty.
C5_FailingOpDoesNotHaltQueue ==
    /\ \A a, b \in Calls :
          (b \in behind[a]) ~> (pc[b] = "returned" \/ Discarded(b))
    /\ (\E a \in Calls : pc[a] = "opdone" /\ ~opResult[a].ok)
          ~> (~processing /\ queue = <<>>)

\* executeWithRetry of call c has ended, and how
RetryFinished(c) == pc[c] \in {"opdone", "settled", "returned"}

RetryOutcome(c) == IF kind[c] \in {"retry"} \cup DirectKinds THEN ret[c] ELSE opResult[c]

ViaRetry(c) == kind[c] \in {"retry", "atomicRetry"}

\* C6: all attempts of one executeAtomicWithRetry call, backoff waits
\* included, run inside one queue entry: between the first and the last
\* attempt of a caller no attempt of another queued caller starts.
C6_RetryLoopIsOneEntry ==
    /\ \A i, j, k \in 1..Len(attemptSeq) :
          (i < j /\ j < k /\ attemptSeq[i] = attemptSeq[k]) => attemptSeq[j] = attemptSeq[i]
    /\ \A a, b \in Calls :
          (kind[a] = "atomicRetry" /\ pc[a] = "backoff" /\ a # b) => ~Executing(b)

C6_Witness ==
    \E a, b \in Calls :
        /\ a # b
        /\ b \in behind[a]
        /\ attemptSeq = <<a, a, b>>

\* C7: executeWithRetry(op, maxRetries) with maxRetries >= 1 invokes op one
\* attempt at a time, stops at the first attempt that fulfils and returns its
\* result, never invokes op more than maxRetries times, and when every
\* attempt fails has invoked op exactly maxRetries times and rejects.
C7_BoundedAttempts ==
    \A c \in Calls : (ViaRetry(c) /\ maxRetries[c] >= 1 /\ invoked[c] > 0) =>
        /\ invoked[c] <= maxRetries[c]
        /\ invoked[c] = attempt[c]
        /\ pc[c] = "running" => failures[c] = invoked[c] - 1 /\ ~attemptResult[c].ok
        /\ pc[c] = "backoff" => failures[c] = invoked[c] /\ invoked[c] < maxRetries[c]
        /\ attemptResult[c].ok => RetryFinished(c)
        /\ RetryFinished(c) =>
              IF attemptResult[c].ok
              THEN failures[c] = invoked[c] - 1 /\ RetryOutcome(c) = attemptResult[c]
              ELSE failures[c] = maxRetries[c] /\ invoked[c] = maxRetries[c]
                   /\ ~RetryOutcome(c).ok

C7_Witness ==
    \E a, b \in Calls :
        /\ ViaRetry(a) /\ RetryFinished(a) /\ failures[a] = 2 /\ maxRetries[a] = 2
        /\ ViaRetry(b) /\ RetryFinished(b) /\ failures[b] = 1 /\ attemptResult[b].ok

\* C8: when all maxRetries attempts fail, the error executeWithRetry throws
\* embeds the message of the last attempt, and that same error is what the
\* enqueue() promise rejects with and what the caller of
\* executeAtomicWithRetry receives.
C8_LastErrorSurfaces ==
    \A c \in Calls :
        (ViaRetry(c) /\ maxRetries[c] >= 1 /\ RetryFinished(c) /\ ~attemptResult[c].ok) =>
            LET last == attemptResult[c].msg
                e == [ok |-> FALSE, n |-> maxRetries[c],
                      msg |-> IF last = "" THEN "Unknown error" ELSE last]
            IN  /\ RetryOutcome(c) = e
                /\ (kind[c] = "atomicRetry" /\ pc[c] \in {"settled", "returned"}) => promise[c] = e
                /\ pc[c] = "returned" => ret[c] = e

C8_Witness ==
    \E c \in Calls :
        /\ kind[c] = "atomicRetry"
        /\ pc[c] = "returned"
        /\ failures[c] = 2
        /\ ret[c] = [ok |-> FALSE, n |-> 2, msg |-> "m1"]

C5_Witness ==
    \E a, b \in Calls :
        /\ b \in behind[a]
        /\ pc[b] = "returned"
        /\ ~processing

\* ------------------------------------------------------------- record store
\* the calls made so far
Made == {c \in Calls : pc[c] # "idle"}

\* the records the backing store holds under key k, by id: those of the map,
\* or the items of a legacy sequence that carry an id
Stored(k) ==
    IF store[k].shape = "array"
    THEN LET arr == store[k].arr
             at(id) == CHOOSE i \in 1..Len(arr) : arr[i].id = id
         IN  [id \in {arr[i].id : i \in 1..Len(arr)} \ {0} |-> arr[at(id)]]
    ELSE ReadMap(store[k])

\* the records of the persisted map that call c wrote
RecordsOf(c) ==
    {id \in DOMAIN Stored(payload[c].key) : Stored(payload[c].key)[id].name = c}

\* C1: savePromptAtomic calls with pairwise distinct ids, made through one
\* facade and one queue in any interleaving, with no backing-store failure:
\* every call that has returned has resolved, and once all of them have
\* returned the persisted map holds the record of each (no lost update).
C1_NoLostUpdate ==
    ( /\ mode = "atomic"
      /\ \A c \in Made : kind[c] = "saveAtomic" /\ failures[c] = 0
      /\ \A c, d \in Made : c # d /\ payload[c].id # 0 => payload[c].id # payload[d].id )
    => /\ \A c \in Made : pc[c] = "returned" => ret[c] = Fulfilled("void")
       /\ (\A c \in Made : pc[c] = "returned")
            => \A c \in Made : RecordsOf(c) = {local[c].id}

C1_Witness ==
    /\ mode = "atomic"
    /\ Made = StoreCalls
    /\ \A c \in Made : /\ kind[c] = "saveAtomic" /\ failures[c] = 0
                        /\ pc[c] = "returned" /\ ret[c] = Fulfilled("void")
                        /\ RecordsOf(c) = {local[c].id}
    /\ \A c, d \in Made : c # d => local[c].id # local[d].id
    /\ payload[1].id # 0
    /\ StoreCalls \ {1} \subseteq overlapped

\* C9 (as the specification states it): a savePromptAtomic/saveContextAtomic
\* call, with or without a caller-supplied id, whose attempts 1 and 2 failed
\* and whose attempt 3 succeeded has resolved, and the persisted map then
\* holds exactly one record that came from the call.
C9_RetryLeavesOneRecord ==
    \A c \in StoreCalls :
        ( /\ kind[c] = "saveAtomic" /\ pc[c] = "returned"
          /\ failures[c] = 2 /\ attempt[c] = 3 /\ attemptResult[c].ok
          /\ Made = {c} )
        => ret[c] = Fulfilled("void") /\ Cardinality(RecordsOf(c)) = 1

\* the same statement for the payloads that carry an id
C9_SuppliedIdLeavesOneRecord ==
    \A c \in StoreCalls :
        ( /\ kind[c] = "saveAtomic" /\ pc[c] = "returned"
          /\ failures[c] = 2 /\ attempt[c] = 3 /\ attemptResult[c].ok
          /\ Made = {c} /\ payload[c].id # 0 )
        => ret[c] = Fulfilled("void") /\ RecordsOf(c) = {payload[c].id}

\* a call without an id, failed twice at the verification read, has
\* resolved and left three records
C9_Witness ==
    \E c \in StoreCalls :
        /\ kind[c] = "saveAtomic" /\ pc[c] = "returned" /\ ret[c] = Fulfilled("void")
        /\ failures[c] = 2 /\ attempt[c] = 3
        /\ Made = {c} /\ payload[c].id = 0
        /\ Cardinality(RecordsOf(c)) = 3

\* a step keeps the createdAt of every record of m that has one and is still
\* in n
KeepsCreatedAt(m, n) ==
    \A id \in DOMAIN m \cap DOMAIN n :
        m[id].createdAt # 0 => n[id].createdAt = m[id].createdAt

\* C10: no step of any save variant (savePrompt/saveContext, their atomic
\* variants, the saves of MockStorageService), nor any other step, changes the
\* createdAt of a record that is stored with one: a save onto an existing id
\* carries the stored createdAt forward even when the payload brings another.
C10_CreatedAtImmutable ==
    [][\A k \in Keys : /\ KeepsCreatedAt(Stored(k), Stored(k)')
                       /\ KeepsCreatedAt(mock[k], mock'[k])]_vars

\* a save onto a stored record, with a createdAt of the caller's, has
\* returned: the record is the caller's, refreshed, with its old createdAt
C10_Witness ==
    \E c \in StoreCalls :
        /\ kind[c] = "saveAtomic" /\ pc[c] = "returned" /\ ret[c] = Fulfilled("void")
        /\ payload[c].id = 1 /\ payload[c].createdAt = 9
        /\ RecordsOf(c) = {1}
        /\ Stored(payload[c].key)[1].createdAt = 1
        /\ Stored(payload[c].key)[1].updatedAt = 2

\* ------------------------------------------------------------- listing
\* call c is a getPrompts / getContexts that has returned a list
Listed(c) == kind[c] = "get" /\ pc[c] = "returned" /\ ret[c] = Fulfilled("list")

\* the string x comes before the string y in lexical order
LexBefore(x, y) ==
    \E i \in 1..(Len(x) + 1) :
        /\ \A j \in 1..(i - 1) : j <= Len(y) /\ x[j] = y[j]
        /\ IF i > Len(x) THEN Len(y) >= i ELSE i <= Len(y) /\ x[i] < y[i]

\* list l holds one entry per key of m, ascending by createdAt (0 when the
\* record has none), ties in lexical order of the ids
SortedListOf(l, m) ==
    /\ Len(l) = Cardinality(DOMAIN m)
    /\ {l[i].id : i \in DOMAIN l} = DOMAIN m
    /\ \A i, j \in DOMAIN l : i < j =>
           \/ m[l[i].id].createdAt < m[l[j].id].createdAt
           \/ /\ m[l[i].id].createdAt = m[l[j].id].createdAt
              /\ LexBefore(IdString(l[i].id), IdString(l[j].id))

\* C11: the list getPrompts()/getContexts() returns has exactly one entry per
\* key of the map it read, ascending by createdAt with ties in ascending
\* (lexical) order of id, in whatever order the map gives its values; two
\* calls that read the same map return the same list.
C11_SortedListing ==
    /\ \A c \in StoreCalls : Listed(c) => SortedListOf(local[c].list, local[c].map)
    /\ \A c, d \in StoreCalls :
           Listed(c) /\ Listed(d) /\ local[c].map = local[d].map
               => local[c].list = local[d].list

C11_Witness ==
    /\ Listed(1) /\ Listed(2)
    /\ local[1].map = local[2].map
    /\ [i \in DOMAIN local[1].list |-> local[1].list[i].id] = <<100, 2, 1>>
    /\ local[2].list = local[1].list

\* ------------------------------------------------------------- deletes
\* call d is a deletePromptAtomic / deleteContextAtomic of the id that the
\* call made just before it has deleted with success
SecondDelete(d) ==
    /\ d > 1
    /\ kind[d] = "deleteAtomic" /\ kind[d - 1] = "deleteAtomic"
    /\ payload[d].key = payload[d - 1].key /\ payload[d].id = payload[d - 1].id
    /\ pc[d - 1] = "returned" /\ ret[d - 1] = Fulfilled("void")

\* C12: from the moment the first of two successive atomic deletes of one id
\* has resolved until the second has returned, the backing store does not
\* change; the second delete issues no write, and it returns resolved after
\* a single attempt.
C12_SecondDeleteIsNoOp ==
    [][\A d \in StoreCalls :
          SecondDelete(d) /\ pc[d] # "returned"
              => /\ store' = store
                 /\ pc'[d] # "wSet"
                 /\ pc'[d] = "returned" => ret'[d] = Fulfilled("void") /\ invoked'[d] = 1]_vars

\* both deletes of id 1 have resolved, the first having emptied the map
C12_Witness ==
    /\ mode = "atomic"
    /\ SecondDelete(2)
    /\ pc[2] = "returned" /\ ret[2] = Fulfilled("void")
    /\ startSeq = <<1, 2>>
    /\ store[payload[1].key] = MapVal(<<>>)

\* the ids of the lists getPrompts / getContexts can return for map m
ListedIds(m) ==
    LET l == mapToList(m, CHOOSE o \in Enumerations(m) : TRUE)
    IN  {l[i].id : i \in DOMAIN l}

\* no call made after c is an atomic save onto the id that c names
NoLaterSaveOnto(c) ==
    \A d \in Made : d > c => ~(kind[d] = "saveAtomic" /\ payload[d].id = payload[c].id)

\* C13: with atomic calls only, once a deletePromptAtomic/deleteContextAtomic
\* of an id has resolved, and as long as no later save targets that id, the
\* persisted map has no such key and no listing returns the id, whatever
\* later atomic saves onto other ids and later deletes do.
C13_DeletedStaysDeleted ==
    \A c \in StoreCalls :
        ( /\ mode = "atomic" /\ kind[c] = "deleteAtomic"
          /\ pc[c] = "returned" /\ ret[c] = Fulfilled("void")
          /\ NoLaterSaveOnto(c) )
        => /\ payload[c].id \notin DOMAIN Stored(payload[c].key)
           /\ payload[c].id \notin ListedIds(ReadMap(store[payload[c].key]))

\* the delete of the stored id 1 has resolved, and after it a save onto
\* another id: the map holds that record only
C13_Witness ==
    /\ mode = "atomic"
    /\ kind[1] = "deleteAtomic" /\ pc[1] = "returned" /\ ret[1] = Fulfilled("void")
    /\ kind[2] = "saveAtomic" /\ pc[2] = "returned" /\ ret[2] = Fulfilled("void")
    /\ payload[2].id = 2
    /\ invoked[1] = 1
    /\ DOMAIN Stored(payload[1].key) = {2}
    /\ Stored(payload[1].key)[2].name = 2

\* the backing store serves every callback of call c
Served(c) == ~Outage /\ ~FaultWindow(c)

\* C14 (as the specification states it): a non-atomic deletePrompt /
\* deleteContext of an id that is in the persisted map, with no backing-store
\* failure and no concurrent writer, has resolved when it returns, and the id
\* is then absent from the persisted map.
C14_DirectDeleteRemoves ==
    \A c \in StoreCalls :
        ( /\ kind[c] = "delete" /\ pc[c] = "returned"
          /\ Served(c)
          /\ \A d \in Made : d > c => ~(kind[d] = "save" /\ payload[d].id = payload[c].id) )
        => /\ ret[c] = Fulfilled("void")
           /\ payload[c].id \notin DOMAIN Stored(payload[c].key)

\* what the code does: the delete of a stored id has made three attempts,
\* each writing the record back through the merge, and has rejected; the
\* record is still stored
C14_Witness ==
    \E c \in StoreCalls :
        /\ kind[c] = "delete" /\ pc[c] = "returned"
        /\ Served(c)
        /\ ret[c] = DeleteError("delete did not persist, retrying")
        /\ invoked[c] = 3
        /\ payload[c].id \in DOMAIN Stored(payload[c].key)

\* ------------------------------------------------------------- legacy migration
\* map m holds the items of the legacy sequence arr, one record each: under
\* its id when the item has one, with the item's createdAt when it has one
MigratedFrom(m, arr) ==
    /\ Cardinality(DOMAIN m) = Len(arr)
    /\ \A i \in 1..Len(arr) :
           \E id \in DOMAIN m :
               /\ m[id].id = id /\ m[id].name = arr[i].name
               /\ arr[i].id # 0 => id = arr[i].id
               /\ arr[i].createdAt # 0 => m[id].createdAt = arr[i].createdAt

\* C15: a getPrompts()/getContexts() whose read finds a legacy sequence takes
\* the records of the sequence, one per item, as its map; when it returns,
\* its list is the sorted list of those records and the backing value is a
\* map, which for a call that is alone is the map of those records.
C15_MigratesBeforeReturning ==
    [][\A c \in StoreCalls :
          kind[c] = "get" =>
            /\ ( pc[c] = "read" /\ pc'[c] = "wGet" )
                  => /\ store[payload[c].key].shape = "array"
                     /\ MigratedFrom(local'[c].map, store[payload[c].key].arr)
            /\ ( local[c].mig /\ pc'[c] = "returned" )
                  => /\ ret'[c] = Fulfilled("list")
                     /\ SortedListOf(local'[c].list, local[c].map)
                     /\ store'[payload[c].key].shape = "map"
                     /\ Made = {c} => store'[payload[c].key] = MapVal(local[c].map)]_vars

\* the first getPrompts on a sequence of three raw records has returned them
\* sorted, and the backing value is the map of the three
C15_Witness ==
    /\ Made = {1} /\ Listed(1)
    /\ [i \in DOMAIN local[1].list |-> local[1].list[i]]
         = <<[id |-> 1, name |-> 12], [id |-> 100, name |-> 13], [id |-> 2, name |-> 11]>>
    /\ store[payload[1].key].shape = "map"
    /\ DOMAIN store[payload[1].key].map = {1, 2, 100}

\* C16: from a legacy sequence, whatever the interleaving of the reads, the
\* migration is persisted once: a write of a migrated map finds the sequence
\* still stored, and leaves exactly one record per legacy item.
C16_MigrationPersistedOnce ==
    [][\A c \in StoreCalls :
          ( local[c].mig /\ pc[c] = "wSet" /\ pc'[c] # "wSet" )
            => /\ store[payload[c].key].shape = "array"
               /\ MigratedFrom(store'[payload[c].key].map,
                               store[payload[c].key].arr)]_vars

\* two reads have both migrated the sequence: the item without an id is
\* stored twice, under two generated ids
C16_Witness ==
    \E k \in {"prompts", "contexts"} :
        /\ store[k].shape = "map"
        /\ \A c \in StoreCalls : pc[c] = "returned" /\ kind[c] = "get"
        /\ \E a, b \in DOMAIN store[k].map :
               a # b /\ store[k].map[a].name = 12 /\ store[k].map[b].name = 12

\* ------------------------------------------------------------- anomalous values
\* the backing value is neither an object map nor a sequence
Anomalous(val) == val.shape \notin {"map", "array"}

\* C17: when the callback of a successful get hands over a value that is
\* neither a map nor a sequence (absent, null, string, number, boolean), the
\* read yields the empty map: getPrompts()/getContexts() return the empty
\* list, and the attempt of a save or delete goes on without an error, a
\* save from the map holding only its own record.
C17_AnomalyReadsAsEmpty ==
    [][\A c \in StoreCalls :
          ( pc[c] = "read" /\ pc'[c] # "read" /\ Anomalous(store[payload[c].key]) )
            => IF kind[c] = "get"
               THEN ret'[c] = Fulfilled("list") /\ local'[c].list = <<>>
               ELSE /\ attemptResult'[c] \in {attemptResult[c], Fulfilled("void")}
                    /\ lastError'[c] = lastError[c]
                    /\ kind[c] = "saveAtomic"
                         => pc'[c] = "wGet" /\ DOMAIN local'[c].map = {local[c].id}]_vars

\* the backing value is null: getPrompts() has rejected with a TypeError and
\* a savePromptAtomic has been rejected after its attempts
C17_Witness ==
    \E c, d \in StoreCalls :
        /\ store[payload[c].key] = NullVal
        /\ kind[c] = "get" /\ pc[c] = "returned" /\ ret[c] = Rejected("TypeError")
        /\ kind[d] = "saveAtomic" /\ pc[d] = "returned" /\ ~ret[d].ok
        /\ invoked[d] = DefaultMaxRetries

\* ------------------------------------------------------------- backing store out of order
\* C18: while every backing get and set fails, savePromptAtomic and
\* deletePromptAtomic (and the contexts variants) never resolve: each rejects
\* after exactly maxRetries attempts with the error of the retry executor,
\* and the persisted value does not change.
C18_OutageRejects ==
    [][Outage =>
         /\ store' = store
         /\ \A c \in StoreCalls :
               ( pc[c] # "returned" /\ pc'[c] = "returned" )
                 => /\ ret'[c] = RetryError(DefaultMaxRetries, "io")
                    /\ invoked'[c] = DefaultMaxRetries
                    /\ failures'[c] = DefaultMaxRetries]_vars

\* a save and a delete of a stored id have both been rejected during the
\* outage, three attempts each, and the stored map still holds the id
C18_Witness ==
    /\ Outage
    /\ \E c, d \in StoreCalls :
          /\ kind[c] = "saveAtomic" /\ kind[d] = "deleteAtomic"
          /\ pc[c] = "returned" /\ pc[d] = "returned"
          /\ ~ret[c].ok /\ ~ret[d].ok
          /\ invoked[c] = DefaultMaxRetries /\ invoked[d] = DefaultMaxRetries
          /\ payload[d].id \in DOMAIN Stored(payload[d].key)

\* ------------------------------------------------------------- flush and depth
\* entry c was enqueued and its operation has neither settled nor been
\* removed by clear()
Uncompleted(c) == pc[c] # "idle" /\ ~OpSettled(c) /\ ~Discarded(c)

\* C19: at the step in which flush() resolves, every operation enqueued so
\* far, before the flush or during it, has completed: none waits in the
\* queue and none is in flight.
C19_FlushDrains ==
    [][( flushPc # "done" /\ flushPc' = "done" )
         => \A c \in Calls : ~Uncompleted(c)']_vars

\* C20: getQueueDepth() is the number of enqueued operations that have not
\* completed, those not yet started and the one in flight.
C20_DepthCountsUncompleted ==
    Len(queue) = Cardinality({c \in Calls : Uncompleted(c)})

\* one entry waits and another is in flight: getQueueDepth() gives 1
C20_Witness ==
    /\ Len(queue) = 1
    /\ \E c \in Calls : Executing(c)
    /\ Cardinality({c \in Calls : Uncompleted(c)}) = 2

\* ------------------------------------------------------------- metrics
\* the fraction r is the count-weighted average of the averages of m1 and m2
WeightedAverageOf(r, m1, m2) ==
    LET a == m1.averageLatency
        b == m2.averageLatency
        n1 == m1.totalOperations
        n2 == m2.totalOperations
    IN  IF n1 + n2 = 0 THEN r = Whole(0)
        ELSE r[1] * (n1 + n2) * a[2] * b[2] = r[2] * (a[1] * n1 * b[2] + b[1] * n2 * a[2])

\* C21: in every state of the two layers getMetrics() gives the sums of the
\* executor's and the queue's counters, the queue's current depth, the later
\* of the two lastOperationTime values, and the average latency weighted by
\* the operation counts (0 when both counts are 0).
C21_CombinedMetrics ==
    Metered =>
      /\ getMetrics.totalOperations
           = meter.exec.totalOperations + meter.queue.totalOperations
      /\ getMetrics.successfulOperations
           = meter.exec.successfulOperations + meter.queue.successfulOperations
      /\ getMetrics.failedOperations
           = meter.exec.failedOperations + meter.queue.failedOperations
      /\ getMetrics.queueDepth = Len(queue)
      /\ getMetrics.lastOperationTime >= meter.exec.lastOperationTime
      /\ getMetrics.lastOperationTime >= meter.queue.lastOperationTime
      /\ getMetrics.lastOperationTime
           \in {meter.exec.lastOperationTime, meter.queue.lastOperationTime}
      /\ WeightedAverageOf(getMetrics.averageLatency, meter.exec, meter.queue)

\* both layers have recorded operations with different latencies, and an
\* entry waits: the combined average is neither layer's own
C21_Witness ==
    /\ Metered
    /\ meter.exec.totalOperations = 2 /\ meter.queue.totalOperations = 1
    /\ meter.exec.averageLatency = <<1, 2>> /\ meter.queue.averageLatency = Whole(1)
    /\ getMetrics.averageLatency = <<2, 3>>
    /\ getMetrics.queueDepth = 1

\* C22: right after ConcurrencyService.resetMetrics() every field of the
\* executor's and of the queue's metrics is 0, whatever the queue holds.
C22_ResetZeroesBothLayers ==
    [][ResetMetrics => meter'.exec = ZeroMetrics /\ meter'.queue = ZeroMetrics]_vars

\* resetMetrics() was called while an entry waited: the queue's queueDepth
\* is 1 with every other field 0
C22_Witness ==
    /\ Metered
    /\ meter.exec = ZeroMetrics
    /\ meter.queue = [ZeroMetrics EXCEPT !.queueDepth = 1]
    /\ \E c \in Calls : pc[c] = "returned"

\* ------------------------------------------------------------- serial equivalence
\* map after is what operation c, applied on its own, makes of map before:
\* a save puts its record under its id and keeps a stored createdAt, a
\* delete takes its id out; every other record stays as it is
AppliedAlone(c, before, after) ==
    IF kind[c] = "saveAtomic"
    THEN \E id \in DOMAIN after :
            /\ after = Put(before, id, after[id])
            /\ after[id].id = id /\ after[id].name = c
            /\ IF payload[c].id # 0 THEN id = payload[c].id ELSE id \notin DOMAIN before
            /\ KeepsCreatedAt(before, after)
    ELSE /\ kind[c] = "deleteAtomic"
         /\ after = Remove(before, payload[c].id)

\* every call made before c has ended
FirstInLine(c) == \A d \in Made : d < c => pc[d] \in EndedPcs

\* C23: atomic saves and deletes submitted concurrently through one facade
\* and one queue, the backing store serving every call: the persisted map
\* changes only by the write of the operation that is first in enqueue
\* order among those not ended, and that write makes of the map persisted
\* just before it what the operation makes when applied alone; an operation
\* that has ended has resolved, its id stored after a save and absent after
\* a delete at that moment.
C23_SerialEquivalence ==
    [][/\ \A k \in Keys :
            store'[k] # store[k]
              => \E c \in Made :
                    /\ pc[c] = "wSet" /\ payload[c].key = k /\ FirstInLine(c)
                    /\ store'[k].shape = "map"
                    /\ AppliedAlone(c, Stored(k), store'[k].map)
       /\ \A c \in Made :
            ( pc[c] \notin EndedPcs /\ pc'[c] \in EndedPcs )
              => /\ opResult'[c] = Fulfilled("void")
                 /\ FirstInLine(c)
                 /\ IF kind[c] = "saveAtomic"
                    THEN local[c].id \in DOMAIN Stored(payload[c].key)'
                    ELSE payload[c].id \notin DOMAIN Stored(payload[c].key)']_vars

\* two deletes of distinct stored ids, the second enqueued while the first
\* was under way, have both resolved and the map is empty
C23_Witness ==
    /\ kind[1] = "deleteAtomic" /\ kind[2] = "deleteAtomic"
    /\ payload[1].id # payload[2].id
    /\ invoked[1] = 1 /\ invoked[2] = 1
    /\ 2 \in overlapped
    /\ pc[1] = "returned" /\ pc[2] = "returned"
    /\ ret[1] = Fulfilled("void") /\ ret[2] = Fulfilled("void")
    /\ store[payload[1].key] = MapVal(<<>>)

\* a save enqueued ahead of a delete of another id: the delete's
\* replace-write has kept the saved record
C23_SaveSurvivesDelete ==
    /\ kind[1] = "saveAtomic" /\ kind[2] = "deleteAtomic"
    /\ 2 \in overlapped
    /\ local[1].id # payload[2].id
    /\ pc[2] = "returned" /\ invoked[2] = 1
    /\ settles[2] = 1
    /\ DOMAIN Stored(payload[1].key) = {local[1].id}

\* ------------------------------------------------------------- verification
\* the step is the verification read of a save attempt of call c
VerifiesSave(c) ==
    /\ kind[c] \in {"saveAtomic", "save"}
    /\ pc[c] = "read" /\ local[c].phase = "verify" /\ pc'[c] # "read"

\* C24: a save attempt counts as successful only if its verification read
\* shows the target id present with the content the attempt wrote; when
\* another client replaced or removed the record in between, the attempt
\* fails its verification and is retried.
C24_VerifiesContent ==
    [][\A c \in StoreCalls :
          VerifiesSave(c) =>
            LET m == Stored(payload[c].key)
                written == local[c].id \in DOMAIN m /\ m[local[c].id].name = c
            IN  IF written
                THEN attemptResult'[c] = Fulfilled("void")
                ELSE /\ attemptResult'[c] = Rejected(VerifyMessage(kind[c]))
                     /\ invoked[c] < DefaultMaxRetries => pc'[c] = "backoff"]_vars

\* a save has resolved on its first attempt while the record under its id
\* is the one another client wrote
C24_Witness ==
    \E c \in StoreCalls :
        /\ kind[c] \in {"saveAtomic", "save"}
        /\ pc[c] = "returned" /\ ret[c] = Fulfilled("void") /\ invoked[c] = 1
        /\ local[c].id \in DOMAIN Stored(payload[c].key)
        /\ Stored(payload[c].key)[local[c].id].name = Foreign

\* ------------------------------------------------------------- no rollback
\* the step is a verification read of savePromptAtomic call c that fails
\* with chrome.runtime.lastError
VerificationReadFails(c) ==
    /\ kind[c] = "saveAtomic"
    /\ pc[c] = "read" /\ local[c].phase = "verify"
    /\ failures'[c] = failures[c] + 1

\* call d is a savePromptAtomic of the payload of call c, made after c was
\* rejected, and the backing store serves it
Resubmits(d, c) ==
    /\ c < d /\ kind[c] = "saveAtomic" /\ kind[d] = "saveAtomic"
    /\ pc[c] = "returned" /\ ~ret[c].ok /\ c \notin overlapped /\ d \notin overlapped
    /\ payload[d].key = payload[c].key /\ payload[d].id = payload[c].id
    /\ payload[d].createdAt = payload[c].createdAt
    /\ Served(d)

\* C25: a verification read of savePromptAtomic that fails leaves the write
\* of its attempt in place (no rollback), and after the last attempt the
\* call rejects with the executor's error, maxRetries attempts made and the
\* target record stored; a following savePromptAtomic of the same payload
\* that the store serves resolves in one attempt, and with a caller-supplied
\* id the two calls leave one record, the second call's, under that id.
C25_NoRollback ==
    [][\A c \in StoreCalls :
          /\ VerificationReadFails(c)
               => /\ store' = store
                  /\ RecordsOf(c)' # {} /\ local[c].id \in RecordsOf(c)'
                  /\ IF attempt[c] < maxRetries[c]
                     THEN pc'[c] = "backoff"
                     ELSE /\ opResult'[c] = RetryError(DefaultMaxRetries, "io")
                          /\ invoked[c] = DefaultMaxRetries
          /\ \A d \in StoreCalls :
               ( Resubmits(d, c) /\ pc[d] # "returned" /\ pc'[d] = "returned" )
                 => /\ ret'[d] = Fulfilled("void") /\ invoked'[d] = 1
                    /\ RecordsOf(d)' = {local'[d].id}
                    /\ payload[d].id # 0
                         => RecordsOf(c)' = {} /\ local'[d].id = payload[c].id]_vars

\* every attempt of the first call wrote its record and failed its
\* verification read; the call was rejected, and the same payload saved
\* again has resolved, one record under the id
C25_Witness ==
    /\ mode = "atomic" /\ Resubmits(2, 1)
    /\ payload[1].id = 2
    /\ ret[1] = RetryError(DefaultMaxRetries, "io") /\ failures[1] = DefaultMaxRetries
    /\ pc[2] = "returned" /\ ret[2] = Fulfilled("void")
    /\ RecordsOf(2) = {2} /\ RecordsOf(1) = {}
    /\ Stored(payload[1].key)[2].createdAt < Stored(payload[1].key)[2].updatedAt

\* the call without an id was rejected after three attempts, each of which
\* left its record in the map
C25_RejectedButStored ==
    /\ mode = "atomic" /\ kind[1] = "saveAtomic" /\ payload[1].id = 0
    /\ pc[1] = "returned" /\ ret[1] = RetryError(DefaultMaxRetries, "io")
    /\ Cardinality(RecordsOf(1)) = DefaultMaxRetries

\* C26: non-atomic saves are not serialized and their verification sees only
\* the moment of its read: a save resolves exactly when its verification read
\* finds its id in the map, so a record that a racing save's write drops after
\* that read is lost while both calls have resolved
C26_UnserializedSaveResolves ==
    [][\A c \in Racers :
          ( /\ mode = "race" /\ VerifiesSave(c)
            /\ pc'[c] = "returned" /\ ret'[c] = Fulfilled("void") )
          => local[c].id \in DOMAIN Stored(payload[c].key)]_vars

\* two racing saves with distinct ids have both resolved, no store call has
\* failed, and the persisted map lacks the record of the first
C26_Witness ==
    /\ mode = "race"
    /\ \A c \in Racers : /\ kind[c] = "save" /\ pc[c] = "returned"
                          /\ ret[c] = Fulfilled("void") /\ failures[c] = 0
    /\ local[1].id # local[2].id
    /\ payload[1].key = payload[2].key
    /\ local[1].id \notin DOMAIN ReadMap(store[payload[1].key])
    /\ local[2].id \in DOMAIN ReadMap(store[payload[1].key])

\* the first read of deletePromptAtomic call c returns in this step, and the
\* id is not a key of the persisted map (the key holds a map, or nothing)
DeleteFindsNoId(c) ==
    /\ kind[c] = "deleteAtomic"
    /\ pc[c] = "read" /\ local[c].phase = "first" /\ pc'[c] # "read"
    /\ failures'[c] = failures[c]
    /\ store[payload[c].key].shape \in {"map", "absent"}
    /\ payload[c].id \notin DOMAIN ReadMap(store[payload[c].key])

\* C27: deletePromptAtomic / deleteContextAtomic of an id that is not a key
\* of the persisted map: the attempt that reads the map resolves without
\* writing (the operation ends at its read, the backing value is unchanged,
\* an absent key stays absent), and when no get failed before, it is the
\* first attempt
C27_DeleteOfAbsentId ==
    [][\A c \in StoreCalls :
          DeleteFindsNoId(c)
            => /\ pc'[c] = "opdone" /\ opResult'[c] = Fulfilled("void")
               /\ attemptResult'[c] = Fulfilled("void")
               /\ store' = store
               /\ failures[c] = 0 => invoked[c] = 1 /\ attempt[c] = 1]_vars

\* a delete has resolved on its only attempt while the key was absent, no
\* other call was made, and the key is still absent
C27_Witness ==
    /\ mode = "atomic"
    /\ kind[1] = "deleteAtomic" /\ pc[1] = "returned"
    /\ ret[1] = Fulfilled("void") /\ invoked[1] = 1 /\ failures[1] = 0
    /\ \A d \in Calls \ {1} : pc[d] = "idle"
    /\ store[payload[1].key] = Absent

\* ------------------------------------------------------------- backoff
\* the delays executeWithRetry call c has waited: one after each failed
\* attempt but the last of maxRetries, none after a success; the delay after
\* failed attempt n is min(baseDelayMs * 2^(n-1), maxDelayMs), which never
\* exceeds maxDelayMs and never decreases
BackoffShape(c) ==
    LET w == timer.waits[c]
        base == timer.config.baseDelayMs
        max == timer.config.maxDelayMs
    IN  /\ Len(w) = IF pc[c] = "returned" /\ ~ret[c].ok THEN failures[c] - 1 ELSE failures[c]
        /\ Len(w) < maxRetries[c]
        /\ \A n \in 1..Len(w) :
              /\ w[n] = IF base * Pow2(n - 1) <= max THEN base * Pow2(n - 1) ELSE max
              /\ w[n] <= max
              /\ n > 1 => w[n - 1] <= w[n]

Waiting(c) == pc[c] = "queued" /\ c \in Range(queue)

\* C29: clear() removes every entry not yet started; a removed entry is
\* never started and its enqueue() promise stays pending for ever; the
\* operation in flight is left alone, runs to completion and settles its own
\* promise; an entry enqueued afterwards is processed like any other (it
\* completes unless a later clear() removes it).
C29_ClearDiscards ==
    /\ [][Clear => /\ \A c \in Range(queue) : Discarded(c)'
                   /\ \A c \in Calls : Executing(c) => Executing(c)']_vars
    /\ [](\A c \in Calls : Discarded(c) => /\ invoked[c] = 0 /\ settles[c] = 0
                                            /\ promise[c] = Pending
                                            /\ c \notin Range(startSeq))
    /\ [][\A c \in Calls : Discarded(c) => Discarded(c)']_vars
    /\ \A c \in Calls : Executing(c) ~> (pc[c] = "returned" /\ promise[c] # Pending)
    /\ \A c \in Calls : Waiting(c) ~> (Discarded(c) \/ (pc[c] = "returned" /\ promise[c] # Pending))

\* the second entry was removed by clear() while the first was in flight;
\* the first is still running and the third, enqueued after the clear(),
\* waits behind it
C29_Witness ==
    /\ enqSeq = <<1, 2, 3>>
    /\ Executing(1) /\ Discarded(2) /\ Waiting(3)

\* ------------------------------------------------------------- an operation that hangs
\* entry d was enqueued after entry c
EnqueuedAfter(d, c) ==
    /\ c \in Range(enqSeq) /\ d \in Range(enqSeq)
    /\ IndexOf(enqSeq, c) < IndexOf(enqSeq, d)

\* C30: nothing in the queue times an operation out: for as long as the
\* operation in flight has not settled, no entry enqueued after it has been
\* started and none of their enqueue() promises has settled; if it never
\* settles they never do.
C30_HungOperationBlocks ==
    \A c, d \in Calls :
        ( Executing(c) /\ EnqueuedAfter(d, c) )
          => /\ pc[d] = "queued"
             /\ d \notin Range(startSeq) /\ invoked[d] = 0
             /\ promise[d] = Pending /\ settles[d] = 0

\* the first operation is in flight and two entries enqueued after it wait
C30_Witness ==
    /\ Executing(1)
    /\ queue = <<2, 3>> /\ Waiting(2) /\ Waiting(3)
    /\ EnqueuedAfter(2, 1) /\ EnqueuedAfter(3, 1)

\* ------------------------------------------------------------- no lost wake-up
\* C31: when every operation settles and clear() is never called, every
\* entry handed to enqueue() is eventually started and its promise settled,
\* also when enqueue() arrives while the worker is between the settling of
\* its last entry and the end of its loop; the processing flag is set only
\* while the worker awaits an entry and is always lowered again.
C31_EveryEntryCompletes ==
    /\ \A c \in Calls :
          (pc[c] # "idle") ~> ( /\ pc[c] = "returned" /\ c \in Range(startSeq)
                               /\ promise[c] # Pending /\ settles[c] = 1 )
    /\ [](processing <=> awaiting # NoCall)
    /\ processing ~> ~processing

\* the operation of the first entry rejected while nothing waited, its
\* promise is settled, the worker has not resumed yet, and a second entry
\* has been pushed in the meantime
C31_Witness ==
    /\ processing /\ awaiting = 1
    /\ pc[1] = "returned" /\ ~promise[1].ok /\ behind[1] = {}
    /\ queue = <<2>> /\ Waiting(2)

\* ------------------------------------------------------------- an operation that waits for the queue
\* C32: an operation running inside the queue that submits an entry to the
\* same queue and awaits it never continues: the entry it awaits is never
\* started and its promise stays pending, so the promise of the submitting
\* entry stays pending too, and no entry enqueued later is ever started
\* (the single worker waits for the operation that waits for the worker).
C32_SelfDeadlock ==
    \A c \in Calls :
        pc[c] = "nested"
          => /\ ~ENABLED InnerSettles(c)
             /\ promise[c] = Pending /\ promise[inner[c]] = Pending
             /\ processing /\ awaiting = c
             /\ \A d \in Calls :
                   EnqueuedAfter(d, c)
                     => /\ pc[d] = "queued" /\ d \notin Range(startSeq)
                        /\ invoked[d] = 0 /\ promise[d] = Pending

\* the first operation awaits the entry it submitted, which waits in the
\* queue with an entry enqueued after it
C32_Witness ==
    /\ pc[1] = "nested" /\ inner[1] = 2
    /\ queue = <<2, 3>> /\ Waiting(2) /\ Waiting(3)

\* ------------------------------------------------------------- no attempt allowed
\* a call with maxRetries <= 0 makes no attempt, waits for no backoff and
\* rejects with the executor's error; nothing is recorded as successful
RejectsWithoutAttempt ==
    /\ \A c \in MeterCalls :
          ( pc[c] # "idle" /\ maxRetries[c] <= 0 )
            => /\ invoked[c] = 0 /\ failures[c] = 0 /\ timer.waits[c] = <<>>
               /\ pc[c] \notin {"running", "backoff"}
               /\ pc[c] = "returned" => ret[c] = RetryError(maxRetries[c], "")
    /\ getMetrics.successfulOperations = 0

BuildsRecord(c) ==
    /\ kind[c] = "saveAtomic" /\ pc[c] = "read" /\ local[c].phase = "first"
    /\ pc'[c] = "wGet"

\* the write of call c's save lands in the backing store
SaveLands(c) ==
    /\ kind[c] = "saveAtomic" /\ pc[c] = "wSet" /\ ~local[c].mig
    /\ pc'[c] = "read"

\* C34: with a clock that never goes back and every write made through the
\* atomic methods, the record a save builds carries the time of that save as
\* its updatedAt, the write stores that record under its id, and the
\* updatedAt stored under an id never decreases from one step to the next.
C34_UpdatedAtMonotonic ==
    [][ /\ now' >= now
        /\ \A c \in StoreCalls :
              /\ BuildsRecord(c)
                   => local'[c].map[local'[c].id].updatedAt = now'
              /\ SaveLands(c)
                   => /\ local[c].id \in DOMAIN Stored(payload[c].key)'
                      /\ Stored(payload[c].key)'[local[c].id] = local[c].map[local[c].id]
        /\ \A k \in Keys :
              \A id \in DOMAIN Stored(k) \cap DOMAIN Stored(k)' :
                  Stored(k)'[id].updatedAt >= Stored(k)[id].updatedAt ]_vars

\* two saves of the same id have resolved one after the other, the second
\* at a later time than the record it replaced
C34_Witness ==
    /\ mode = "atomic"
    /\ kind[1] = "saveAtomic" /\ kind[2] = "saveAtomic"
    /\ payload[1].id = 1 /\ payload[2].id = 1
    /\ pc[1] = "returned" /\ ret[1] = Fulfilled("void")
    /\ pc[2] = "returned" /\ ret[2] = Fulfilled("void")
    /\ store[payload[2].key] = MapVal(1 :> Rec(1, 2, 1, 2))

\* the operation of call c's save is under way, between its first read and
\* the end of its verification read
SaveUnderWay(c) == kind[c] = "saveAtomic" /\ pc[c] \in {"read", "wGet", "wSet"}

\* C35: with every write made through the atomic methods and no failure of
\* the backing store, no step taken while the save of id X is under way
\* removes a key of the persisted map or changes the record of a key other
\* than X, and the write of the save stores the save's record under X.
C35_SaveChangesOnlyItsId ==
    [][ \A c \in StoreCalls :
          SaveUnderWay(c)
            => LET before == Stored(payload[c].key)
                   after == Stored(payload[c].key)'
               IN  /\ DOMAIN before \subseteq DOMAIN after
                   /\ \A x \in DOMAIN before \ {local[c].id} : after[x] = before[x]
                   /\ SaveLands(c) => after[local[c].id] = local[c].map[local[c].id] ]_vars

\* a save of id 1 has resolved and replaced the record of id 1, next to the
\* record of id 2, which is as it was at the start
C35_Witness ==
    /\ mode = "atomic"
    /\ \E c \in StoreCalls :
          /\ kind[c] = "saveAtomic" /\ payload[c].id = 1
          /\ pc[c] = "returned" /\ ret[c] = Fulfilled("void")
          /\ DOMAIN Stored(payload[c].key) = {1, 2}
          /\ Stored(payload[c].key)[1].name = c
          /\ Stored(payload[c].key)[2] = Rec(2, 0, 1, 1)

\* ------------------------------------------------------------- two collections
\* C36: a step of a prompts method (getPrompts with its migration,
\* savePrompt, savePromptAtomic, deletePrompt, deletePromptAtomic) leaves the
\* backing value under the contexts key as it is, a step of a contexts
\* method leaves the value under the prompts key as it is; a value changes
\* only at the landing of the write of a call that addresses its key.
C36_OtherCollectionUntouched ==
    [][ \A k \in Keys :
          store'[k] # store[k]
            => \E c \in MixedCallers :
                  /\ payload[c].key = k /\ pc[c] = "wSet" /\ pc'[c] # "wSet"
                  /\ \A j \in Keys \ {k} : store'[j] = store[j] ]_vars

\* savePromptAtomic and saveContextAtomic went through the queue one behind
\* the other; both have resolved, each key holds the record of its own call
C36_Witness ==
    /\ mode = "mixed"
    /\ kind[1] = "saveAtomic" /\ kind[2] = "saveAtomic"
    /\ payload[1].key = "prompts" /\ payload[2].key = "contexts"
    /\ 2 \in overlapped
    /\ pc[1] = "returned" /\ pc[2] = "returned"
    /\ RecordsOf(1) = {1} /\ RecordsOf(2) = {1}

\* ------------------------------------------------------------- records and their keys
\* C37: whatever sequence of saves, deletes and migrations has run on keys
\* that started absent, as an empty map or as a legacy array, every record
\* of a persisted map sits under its own id.
C37_RecordsUnderTheirIds ==
    \A k \in Keys :
        store[k].shape = "map"
          => \A x \in DOMAIN store[k].map : store[k].map[x].id = x

\* a legacy array was migrated, its item without id under a generated id,
\* and a save without id has added a record under another generated id
C37_Witness ==
    /\ mode = "mixed"
    /\ \E k \in Keys, c \in MixedCallers :
          /\ store[k].shape = "map"
          /\ payload[c].key = k /\ payload[c].id = 0
          /\ pc[c] = "returned" /\ ret[c] = Fulfilled("void")
          /\ \E x, y \in DOMAIN store[k].map :
                /\ x # y /\ store[k].map[x].name = c /\ store[k].map[y].name = 0
                /\ x = makeId(idCounter - 1)
                /\ y \notin {1, 2}

\* ------------------------------------------------------------- the counters add up
\* C38: in every reachable state the operations counted by the queue, by
\* the executor and by getMetrics() are the successful plus the failed ones,
\* also after resetMetrics() ran while entries were waiting or under way.
C38_TotalIsSuccessPlusFailure ==
    /\ meter.queue.totalOperations
          = meter.queue.successfulOperations + meter.queue.failedOperations
    /\ meter.exec.totalOperations
          = meter.exec.successfulOperations + meter.exec.failedOperations
    /\ getMetrics.totalOperations
          = getMetrics.successfulOperations + getMetrics.failedOperations

\* resetMetrics() ran after the queue recorded the failure of the first
\* call and before executeAtomic recorded it, with the second call waiting;
\* both calls have returned, the second resolved
C38_Witness ==
    /\ Metered
    /\ pc[1] = "returned" /\ ~ret[1].ok
    /\ pc[2] = "returned" /\ ret[2].ok /\ 2 \in overlapped
    /\ meter.queue.totalOperations = 1 /\ meter.queue.failedOperations = 0
    /\ meter.exec.totalOperations = 3 /\ meter.exec.failedOperations = 1
    /\ getMetrics.totalOperations = 4

\* ------------------------------------------------------------- three records per call
\* the calls whose executeWithRetry has ended, whose queue entry has
\* settled, and that have returned
RetryEnded == {c \in Calls : pc[c] \in EndedPcs}
EntrySettled == {c \in Calls : pc[c] \in {"settled", "returned"}}
Returned == {c \in Calls : pc[c] = "returned"}

\* C39: with the metrics enabled and not reset, every executeAtomicWithRetry
\* call is recorded once by executeWithRetry when its loop ends, once by the
\* queue when its entry settles and once by executeAtomic when it returns,
\* each time with the outcome of the call and whatever the number of
\* attempts: a call that has returned has added 3 to getMetrics()'s
\* totalOperations and 3 to the successful or to the failed operations.
C39_ThreeRecordsPerCall ==
    /\ meter.exec.totalOperations = Cardinality(RetryEnded) + Cardinality(Returned)
    /\ meter.exec.successfulOperations
          = Cardinality({c \in RetryEnded : opResult[c].ok})
            + Cardinality({c \in Returned : ret[c].ok})
    /\ meter.queue.totalOperations = Cardinality(EntrySettled)
    /\ meter.queue.successfulOperations = Cardinality({c \in EntrySettled : promise[c].ok})
    /\ \A c \in Returned : opResult[c].ok = ret[c].ok /\ promise[c].ok = ret[c].ok
    /\ (\A c \in Calls : pc[c] \in {"idle", "returned"})
          => /\ getMetrics.totalOperations = 3 * Cardinality(Returned)
             /\ getMetrics.successfulOperations = 3 * Cardinality({c \in Returned : ret[c].ok})
             /\ getMetrics.failedOperations = 3 * Cardinality({c \in Returned : ~ret[c].ok})

\* the first call resolved at its second attempt, the second call rejected
\* after two failed attempts: six operations recorded, three successful and
\* three failed
C39_Witness ==
    /\ Metered
    /\ kind[1] = "atomicRetry" /\ kind[2] = "atomicRetry"
    /\ pc[1] = "returned" /\ ret[1].ok /\ attempt[1] = 2 /\ failures[1] = 1
    /\ pc[2] = "returned" /\ ~ret[2].ok /\ attempt[2] = 2 /\ failures[2] = 2
    /\ getMetrics.totalOperations = 6
    /\ getMetrics.successfulOperations = 3 /\ getMetrics.failedOperations = 3

============================================================================
